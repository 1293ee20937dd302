--------------------------- MODULE VAMSObjectStore ---------------------------
(***************************************************************************)
(* contracts/src/vdso/VAMSObjectStore.sol: state objects, each written by  *)
(* the one writer its domain has, with a version that must be named.       *)
(*                                                                         *)
(* A state root commits to a state, and a state is what the executions     *)
(* applied to it made of it: a root is the sequence of their ids, and      *)
(* bytes32(0) the empty one.  evidenceRoot and updatedAt are left out:     *)
(* nothing reads them.                                                     *)
(***************************************************************************)
EXTENDS Naturals, Sequences

CONSTANTS
  Domains, Objects,
  Writers,          \* addresses a domain may be given to
  ExecutionIds,
  NoDomain, NoWriter

VARIABLES
  authorities,      \* _domainAuthorities
  objects,          \* _objects
  storePaused

storeVars == <<authorities, objects, storePaused>>

Hosts == {"POLYGON", "CARDANO"}

DomainAuthority ==
  [host : Hosts \cup {"NONE"}, writer : Writers \cup {NoWriter},
   epoch : Nat, enabled : BOOLEAN]

ObjectHeader ==
  [domain : Domains \cup {NoDomain}, root : Seq(ExecutionIds), version : Nat]

StoreTypeOK ==
  /\ authorities \in [Domains -> DomainAuthority]
  /\ objects \in [Objects -> ObjectHeader]
  /\ storePaused \in BOOLEAN

StoreInit ==
  /\ authorities = [d \in Domains |-> [host |-> "NONE", writer |-> NoWriter,
                                       epoch |-> 0, enabled |-> FALSE]]
  /\ objects = [o \in Objects |-> [domain |-> NoDomain, root |-> <<>>,
                                   version |-> 0]]
  /\ storePaused = FALSE

AssignDomainAuthority(d, host, writer) ==
  /\ authorities' = [authorities EXCEPT ![d] =
                       [host |-> host, writer |-> writer,
                        epoch |-> @.epoch + 1, enabled |-> TRUE]]
  /\ UNCHANGED <<objects, storePaused>>

\* The host stays.
DisableDomainAuthority(d) ==
  /\ authorities[d].enabled
  /\ authorities' = [authorities EXCEPT ![d].enabled = FALSE,
                                        ![d].writer = NoWriter,
                                        ![d].epoch = @ + 1]
  /\ UNCHANGED <<objects, storePaused>>

\* What the store and the kernel both ask of an object's domain.
DomainFits(o, d) == objects[o].version # 0 => objects[o].domain = d

WriteObject(writer, o, d, expectedVersion, root) ==
  /\ ~storePaused
  /\ root # <<>>
  /\ authorities[d].enabled
  /\ authorities[d].writer = writer
  /\ objects[o].version = expectedVersion
  /\ DomainFits(o, d)
  /\ objects' = [objects EXCEPT ![o] = [domain |-> d, root |-> root,
                                        version |-> expectedVersion + 1]]
  /\ UNCHANGED <<authorities, storePaused>>

PauseStore(value) ==
  /\ storePaused # value
  /\ storePaused' = value
  /\ UNCHANGED <<authorities, objects>>
=============================================================================
