---------------------------- MODULE VDSOProperties ----------------------------
(***************************************************************************)
(* What the object store, the reservation manager and the kernels must     *)
(* keep true together.                                                     *)
(***************************************************************************)
EXTENDS VAMSExecutionKernel

Used(r) == reservations[r].status # "NONE"
OpenOn(o, r) ==
  /\ reservations[r].status \in {"RESERVED", "RECOVERY_PENDING"}
  /\ reservations[r].of.objectId = o

(***************************************************************************)
(* activeReservation (VAMSReservationManager.sol:34) and the statuses of   *)
(* the reservations agree: an object is locked exactly by the reservation  *)
(* that is open on it, through expiry, recovery, late commits and aborts.  *)
(* One too many would let two holders in, one too few would freeze the     *)
(* object for ever.                                                        *)
(***************************************************************************)
LockMatchesReservation ==
  \A o \in Objects, r \in ReservationIds :
    activeReservation[o] = r <=> OpenOn(o, r)

(***************************************************************************)
(* No two reservations of an object ever share a fencing token, and the    *)
(* one open on it has the last one handed out (lastFencingToken, :104), so *)
(* a request signed for an earlier reservation can never pass for a later  *)
(* one's.                                                                  *)
(***************************************************************************)
TokenOf(r) == reservations[r].of.fencingToken

FencingTokensAscend ==
  \A r \in ReservationIds : Used(r) =>
    LET o == reservations[r].of.objectId
    IN  /\ OpenOn(o, r) => TokenOf(r) = lastFencingToken[o]
        /\ \A s \in ReservationIds \ {r} :
             Used(s) /\ reservations[s].of.objectId = o => TokenOf(s) # TokenOf(r)

(***************************************************************************)
(* What entered an object's state stays in it, whatever stale or repeated  *)
(* requests are submitted to whichever kernel: a version counts the        *)
(* executions in the state, no execution is in two places of the states,   *)
(* and they are those whose receipt the proof router has consumed.         *)
(***************************************************************************)
NoLostUpdate ==
  /\ \A o \in Objects : objects[o].version = Len(objects[o].root)
  /\ \A o1, o2 \in Objects :
       \A n1 \in DOMAIN objects[o1].root, n2 \in DOMAIN objects[o2].root :
         objects[o1].root[n1] = objects[o2].root[n2] => o1 = o2 /\ n1 = n2
  /\ receiptUsed = UNION {{objects[o].root[n] : n \in DOMAIN objects[o].root} :
                            o \in Objects}
(***************************************************************************)
(* A committed reservation went through with what was reserved, by a       *)
(* transition the object's state contains: finalizing the reservation in   *)
(* one contract and writing the object in another (_finalizeReservation    *)
(* and _writeObject, VAMSExecutionKernel.sol:133-134) never come apart.    *)
(***************************************************************************)
Contains(root, part) ==
  Len(part) <= Len(root) /\ \A n \in DOMAIN part : root[n] = part[n]

CommittedAsReserved ==
  \A r \in ReservationIds : reservations[r].status = "COMMITTED" =>
    LET t == reservations[r].transition
        of == reservations[r].of
    IN  /\ t.objectId = of.objectId /\ t.domainId = of.domainId
        /\ t.intentId = of.intentId /\ t.authorityEpoch = of.authorityEpoch
        /\ t.fencingToken = of.fencingToken /\ t.reservationHolder = of.holder
        /\ Contains(objects[of.objectId].root, t.newStateRoot)

(***************************************************************************)
(* A reserved object is written only by the step that commits its          *)
(* reservation, with the reservation's own transition: no kernel, old or   *)
(* new, gets a plain write in between (ObjectLocked, :300).                *)
(***************************************************************************)
WriteCommits(o) ==
  LET r == activeReservation[o]
  IN  objects'[o] # objects[o] /\ r # NoReservation =>
        /\ reservations'[r].status = "COMMITTED"
        /\ reservations'[r].transition.newStateRoot = objects'[o].root

ReservedWriteCommits == [][\A o \in Objects : WriteCommits(o)]_vars

(***************************************************************************)
(* A reservation stands in the domain its object is in.  The kernel looks  *)
(* when it opens one (VAMSExecutionKernel.sol:107), the store only when it *)
(* is written (VAMSObjectStore.sol:104): were the object to get a domain,  *)
(* or another one, in between, the holder could never commit and the       *)
(* object would stay locked until recovery.                                *)
(***************************************************************************)
ReservedInItsDomain ==
  \A o \in Objects, r \in ReservationIds :
    OpenOn(o, r) /\ objects[o].version # 0 =>
      reservations[r].of.domainId = objects[o].domain

(***************************************************************************)
(* Replacing or disabling the authority over a domain fences out what was  *)
(* reserved before, also when the same kernel gets the domain back: a      *)
(* reservation commits only under the very authority it was opened under,  *)
(* late and from recovery too.                                             *)
(***************************************************************************)
CommitsUnderItsEpoch(r) ==
  LET d == reservations[r].of.domainId
  IN  /\ reservations[r].status \in {"RESERVED", "RECOVERY_PENDING"}
      /\ reservations'[r].status = "COMMITTED"
      => /\ authorities[d].enabled
         /\ authorities[d].epoch = reservations[r].of.authorityEpoch

FencedOut == [][\A r \in ReservationIds : CommitsUnderItsEpoch(r)]_vars

(***************************************************************************)
(* "While kernel-paused, only an already-open RESERVE transition may       *)
(* finish" (:116-117): once every kernel is paused, each write uses up a   *)
(* reservation and no new one is opened, so at most as many writes remain  *)
(* as there are open reservations.                                         *)
(***************************************************************************)
OpenReservations ==
  {r \in ReservationIds : \E o \in Objects : OpenOn(o, r)}

DrainsStep ==
  /\ OpenReservations' \subseteq OpenReservations
  /\ objects' # objects => OpenReservations' # OpenReservations

PauseDrains ==
  [][(\A k \in Kernels : kernelPaused[k]) => DrainsStep]_vars

(***************************************************************************)
(* "Quarantined adapters must pass the full delay again before use"        *)
(* (VAMSAdapterRegistry.sol:136): from any moment in quarantine, nothing   *)
(* that registrars do makes the adapter active within ACTIVATION_DELAY.    *)
(***************************************************************************)
ReactivationIsDelayed ==
  \A a \in AdapterIds, t \in 1 .. MaxTime :
    [](adapters[a].status = "QUARANTINED" /\ now = t =>
         [](now < t + ACTIVATION_DELAY => adapters[a].status # "ACTIVE"))

(***************************************************************************)
(* With a recovery verifier, no object stays locked: whatever its holder   *)
(* does or fails to do, whatever happens to its domain's authority and     *)
(* whatever is paused, its reservation ends.  (Without one the code        *)
(* "freezes ambiguity closed", VAMSReservationManager.sol:208.)            *)
(***************************************************************************)
ObjectIsFreed ==
  \A o \in Objects, r \in ReservationIds :
    activeReservation[o] = r ~> activeReservation[o] # r
=============================================================================
