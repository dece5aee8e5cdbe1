----------------------------- MODULE Govshuttle -----------------------------
(***************************************************************************)
(* x/govshuttle: a governance proposal that passes is copied to a proposal *)
(* store contract (Port.sol), where EVM governance reads it by its id.     *)
(* The module deploys the contract with the first such proposal and keeps  *)
(* its address, the port.                                                  *)
(***************************************************************************)
EXTENDS Integers

CONSTANTS
  Body,         \* title, description and targets of a proposal
  Lending,      \* MsgLendingMarketProposals that may be submitted
  Treasury,     \* MsgTreasuryProposals that may be submitted
  Gov, User,    \* signers: the authority of the module, and an account
  None,         \* no address, no proposal
  MaxProposals  \* bound on the proposals submitted

VARIABLES
  proposalID,  \* x/gov: the id that the next proposal will have
  active,      \* x/gov: the messages of proposals that are being voted on
  port,        \* address of the proposal store
  sequence,    \* nonce of the module account
  proposals,   \* address -> id -> Proposal: the storage of the deployed contracts
  executed     \* history: id -> what governance last executed under it

govshuttleVars == <<proposalID, active, port, sequence, proposals, executed>>

Id == 0..(MaxProposals + 1)
Length == 0..2

LendingMsg == [propId : Id, body : Body, calldatas : Length, values : Length, signatures : Length]
TreasuryMsg == [propId : Id, recipient : Body, denom : {"canto", "note", "other"}]
Proposal == [id : Id, body : Body, calldatas : Length, values : Length, signatures : Length]

ASSUME GovshuttleAssumption ==
  /\ MaxProposals \in Nat
  /\ Lending \subseteq LendingMsg /\ Treasury \subseteq TreasuryMsg
  /\ Gov # User /\ None \notin Nat /\ None \notin Proposal

-----------------------------------------------------------------------------
(* The contract.                                                           *)

\* Both the constructor and AddProposal write what they are given under its id.
AddProposal(store, prop) == [store EXCEPT ![prop.id] = prop]
Constructor(prop) == AddProposal([id \in Id |-> None], prop)

\* A proposal is returned only under its own id.
QueryProp(propId) ==
  LET prop == proposals[port][propId]
  IN  IF prop # None /\ prop.id = propId THEN prop ELSE None

-----------------------------------------------------------------------------
(* The keeper.                                                             *)

\* The address is a function of the module account and its nonce.
CreateAddress(nonce) == nonce

\* A proposal without an id is given the one that governance will use next.
ToProposal(lm) ==
  [id |-> IF lm.propId = 0 THEN proposalID ELSE lm.propId, body |-> lm.body,
   calldatas |-> lm.calldatas, values |-> lm.values, signatures |-> lm.signatures]

\* Mutant: the port is not looked up, so that every proposal deploys a contract.
AppendAlwaysDeploying(lm) ==
  LET prop == ToProposal(lm)
      addr == CreateAddress(sequence)
  IN  /\ port' = addr /\ sequence' = sequence + 1
      /\ proposals' = [a \in DOMAIN proposals \cup {addr} |->
                         IF a = addr THEN Constructor(prop) ELSE proposals[a]]

\* The first proposal deploys the contract, which stores it, and is then added
\* like any other.
AppendLendingMarketProposal(lm) ==
  LET prop == ToProposal(lm)
      addr == IF port = None THEN CreateAddress(sequence) ELSE port
      store == IF port = None THEN Constructor(prop) ELSE proposals[port]
  IN  /\ port' = addr
      /\ sequence' = IF port = None THEN sequence + 1 ELSE sequence
      /\ proposals' = [a \in DOMAIN proposals \cup {addr} |->
                         IF a = addr THEN AddProposal(store, prop) ELSE proposals[a]]

LendingMarketProposal(authority, req) ==
  /\ authority = Gov
  /\ req.calldatas = req.values /\ req.values = req.signatures
  /\ AppendLendingMarketProposal(req)

\* A treasury proposal has no calldata.
FromTreasuryToLendingMarket(tp) ==
  [propId |-> tp.propId, body |-> tp.recipient, calldatas |-> 0, values |-> 1, signatures |-> 1]

TreasuryProposal(authority, req) ==
  /\ authority = Gov
  /\ req.denom \in {"canto", "note"}
  /\ AppendLendingMarketProposal(FromTreasuryToLendingMarket(req))

-----------------------------------------------------------------------------
(* Genesis.                                                                *)

\* The empty address stands for a port that is not set.
ExportGenesis == [portContractAddr |-> port]

\* Restart of the chain from an exported genesis: the state of x/gov and of the EVM is kept
\* by their modules.
InitGenesis(genState) ==
  /\ port' = genState.portContractAddr
  /\ UNCHANGED <<proposalID, active, sequence, proposals, executed>>

-----------------------------------------------------------------------------
(* x/gov (external): proposals are submitted, and those that pass are      *)
(* executed in any order; one whose message fails changes nothing.         *)

Msg == Lending \cup Treasury

ToLending(msg) == IF msg \in Lending THEN msg ELSE FromTreasuryToLendingMarket(msg)

Handle(authority, msg) ==
  \/ msg \in Lending /\ LendingMarketProposal(authority, msg)
  \/ msg \in Treasury /\ TreasuryProposal(authority, msg)

SubmitProposal(msg) ==
  /\ proposalID <= MaxProposals
  /\ proposalID' = proposalID + 1
  /\ active' = active \cup {<<proposalID, msg>>}
  /\ UNCHANGED <<port, sequence, proposals, executed>>

\* A message comes from a proposal that passed, or from a transaction an account signs.
Deliver(signer, p) ==
  /\ signer = Gov => p \in active
  /\ Handle(signer, p[2])
  /\ active' = active \ {p}
  /\ executed' = IF signer # Gov THEN executed
                 ELSE LET prop == ToProposal(ToLending(p[2]))
                      IN  [executed EXCEPT ![prop.id] = prop]
  /\ UNCHANGED proposalID

RejectOrFail(p) ==
  /\ p \in active
  /\ active' = active \ {p}
  /\ UNCHANGED <<proposalID, port, sequence, proposals, executed>>

GovshuttleInit ==
  /\ proposalID = 1 /\ active = {}
  /\ port = None /\ sequence = 0
  /\ proposals = [a \in {} |-> [id \in Id |-> None]]
  /\ executed = [id \in Id |-> None]

GovshuttleNext ==
  \/ \E msg \in Msg : SubmitProposal(msg)
  \/ \E signer \in {Gov, User}, p \in Id \X Msg : Deliver(signer, p)
  \/ \E p \in active : RejectOrFail(p)
  \/ InitGenesis(ExportGenesis)

GovshuttleSpec == GovshuttleInit /\ [][GovshuttleNext]_govshuttleVars

-----------------------------------------------------------------------------
(* Properties.                                                             *)

\* EVM governance finds at the port exactly what governance executed: for every id the last
\* proposal executed under it and nothing else, however many were executed before and
\* through a restart from genesis.
StoreIsExecuted ==
  IF port = None THEN \A id \in Id : executed[id] = None
  ELSE port \in DOMAIN proposals /\ \A id \in Id : QueryProp(id) = executed[id]
=============================================================================
