-------------------------------- MODULE Mutex --------------------------------
(***************************************************************************)
(* The owner-tracking mutex of mcsos/kernel/sync/mutex.c, at the grain of  *)
(* one memory access per step, on the memory model of the only target the  *)
(* repository builds for, x86-64.  There the compare-and-exchange is a     *)
(* locked instruction, which waits until the CPU's own earlier stores are  *)
(* visible, while the release stores are plain moves: they go through a    *)
(* first-in first-out store buffer, which the CPU's own loads see and the  *)
(* other CPUs do not.                                                      *)
(*                                                                         *)
(* Every owner may call try_lock and unlock whenever it is in neither      *)
(* call, also when it holds the mutex already or does not hold it.         *)
(***************************************************************************)
EXTENDS Naturals, Sequences

CONSTANT Owners   \* the owner ids in use; 0 is the code's "nobody"

ASSUME OwnersAssumption == 0 \notin Owners

VARIABLES
  locked,   \* mutex->locked in memory
  owner,    \* mutex->owner in memory
  buffer,   \* the stores of each owner that memory has not seen yet
  pc,       \* the access each owner performs next
  has,      \* does the owner, by the replies it got, hold the mutex?
  reply     \* what the owner's last call returned

vars == <<locked, owner, buffer, pc, has, reply>>

Init ==   \* after mcs_mutex_init
  /\ locked = 0
  /\ owner = 0
  /\ buffer = [p \in Owners |-> <<>>]
  /\ pc = [p \in Owners |-> "idle"]
  /\ has = [p \in Owners |-> FALSE]
  /\ reply = [p \in Owners |-> "none"]

-----------------------------------------------------------------------------
(* The store buffer.  The stores are "own" (owner := own id), "disown"     *)
(* (owner := 0) and "open" (locked := 0).                                  *)

OwnerStores(b) == {i \in 1 .. Len(b) : b[i] # "open"}

\* The value p loads from mutex->owner: its own latest buffered store to it,
\* or what memory holds.
OwnerSeen(p) ==
  LET b == buffer[p]
      latest == CHOOSE i \in OwnerStores(b) : \A j \in OwnerStores(b) : j <= i
  IN IF OwnerStores(b) = {} THEN owner
     ELSE IF b[latest] = "own" THEN p ELSE 0

Store(p, s) == buffer' = [buffer EXCEPT ![p] = Append(@, s)]

\* The oldest buffered store of p reaches memory.
Drain(p) ==
  /\ buffer[p] # <<>>
  /\ buffer' = [buffer EXCEPT ![p] = Tail(@)]
  /\ owner' = IF Head(buffer[p]) = "own" THEN p
               ELSE IF Head(buffer[p]) = "disown" THEN 0 ELSE owner
  /\ locked' = IF Head(buffer[p]) = "open" THEN 0 ELSE locked
  /\ UNCHANGED <<pc, has, reply>>

-----------------------------------------------------------------------------
Goto(p, label) == pc' = [pc EXCEPT ![p] = label]

Return(p, code) == Goto(p, "idle") /\ reply' = [reply EXCEPT ![p] = code]

\* A call with owner_id 0 is refused before it touches the mutex.
RefuseOwnerZero(p) ==
  /\ pc[p] = "idle"
  /\ Return(p, "EINVAL")
  /\ UNCHANGED <<locked, owner, buffer, has>>

CasWithoutTest(p) ==
  /\ pc[p] = "idle" /\ buffer[p] = <<>>
  /\ locked' = 1
  /\ Goto(p, "store_owner")
  /\ UNCHANGED <<owner, buffer, has, reply>>

\* Line 18 of try_lock.
TryLockCas(p) ==
  /\ pc[p] = "idle" /\ buffer[p] = <<>>
  /\ \/ locked = 0 /\ locked' = 1 /\ Goto(p, "store_owner")
     \/ locked = 1 /\ locked' = locked /\ Goto(p, "load_owner")
  /\ UNCHANGED <<owner, buffer, has, reply>>

ReportBusyOnly(p) ==
  /\ pc[p] = "load_owner"
  /\ Return(p, "EBUSY")
  /\ UNCHANGED <<locked, owner, buffer, has>>

\* Lines 19-22: the exchange failed; is the mutex ours already?
TryLockBusy(p) ==
  /\ pc[p] = "load_owner"
  /\ Return(p, IF OwnerSeen(p) = p THEN "EDEADLK" ELSE "EBUSY")
  /\ UNCHANGED <<locked, owner, buffer, has>>

\* Lines 24-25.
TryLockStore(p) ==
  /\ pc[p] = "store_owner"
  /\ Store(p, "own")
  /\ has' = [has EXCEPT ![p] = TRUE]
  /\ Return(p, "OK")
  /\ UNCHANGED <<locked, owner>>

\* Lines 32-35 of unlock.
UnlockLoad(p) ==
  /\ pc[p] = "idle"
  /\ \/ OwnerSeen(p) # p /\ Return(p, "EPERM")
     \/ OwnerSeen(p) = p /\ Goto(p, "clear_owner") /\ UNCHANGED reply
  /\ UNCHANGED <<locked, owner, buffer, has>>

\* Line 36.
UnlockOwner(p) ==
  /\ pc[p] = "clear_owner"
  /\ Store(p, "disown")
  /\ Goto(p, "clear_locked")
  /\ UNCHANGED <<locked, owner, has, reply>>

UnlockForgotten(p) ==
  /\ pc[p] = "clear_locked"
  /\ has' = [has EXCEPT ![p] = FALSE]
  /\ Return(p, "OK")
  /\ UNCHANGED <<locked, owner, buffer>>

\* Lines 37-38.
UnlockLocked(p) ==
  /\ pc[p] = "clear_locked"
  /\ Store(p, "open")
  /\ has' = [has EXCEPT ![p] = FALSE]
  /\ Return(p, "OK")
  /\ UNCHANGED <<locked, owner>>

-----------------------------------------------------------------------------
\* The steps of a call that has begun.
Continue(p) ==
  TryLockBusy(p) \/ TryLockStore(p) \/ UnlockOwner(p) \/ UnlockLocked(p)

Next == \E p \in Owners :
  RefuseOwnerZero(p) \/ TryLockCas(p) \/ UnlockLoad(p) \/ Continue(p) \/ Drain(p)

Spec == Init /\ [][Next]_vars

\* A CPU goes on executing a call and drains its store buffer.  Nobody is
\* obliged to begin a call, and in particular not to unlock.
FairSpec == Spec /\ \A p \in Owners : WF_vars(Continue(p)) /\ WF_vars(Drain(p))

-----------------------------------------------------------------------------
\* A buffer never holds more than the three stores of one lock and one unlock.
Buffers == {<<>>, <<"own">>, <<"own", "disown">>, <<"own", "disown", "open">>,
            <<"disown">>, <<"disown", "open">>, <<"open">>}

\* Every variable has its type.
TypeOK ==
  /\ locked \in {0, 1}
  /\ owner \in Owners \cup {0}
  /\ buffer \in [Owners -> Buffers]
  /\ pc \in [Owners -> {"idle", "load_owner", "store_owner", "clear_owner",
                        "clear_locked"}]
  /\ has \in [Owners -> BOOLEAN]
  /\ reply \in [Owners -> {"none", "OK", "EINVAL", "EBUSY", "EDEADLK", "EPERM"}]

\* p has the mutex: it won the exchange and its store to locked is not visible.
Holding(p) == has[p] \/ pc[p] = "store_owner" \/ buffer[p] # <<>>

\* Two owners are never both told that they hold the mutex, also not while the
\* stores of the one that gives it up are still on their way.
MutualExclusion == \A p, q \in Owners : Holding(p) /\ Holding(q) => p = q

\* The replies tell each owner the truth about itself, although the code reads
\* locked and owner at different times: EDEADLK is returned only to the owner
\* that holds the mutex, EBUSY and EPERM only to one that does not.
RepliesTruthful ==
  \A p \in Owners :
    /\ reply[p] = "EDEADLK" => has[p]
    /\ reply[p] \in {"EBUSY", "EPERM"} => ~has[p]

\* What mcs_mutex_owner and mcs_mutex_is_locked show to anybody at any time:
\* an owner only while that owner has the mutex, and a free mutex only when
\* nobody has it.
ObserversSound ==
  /\ owner # 0 => Holding(owner)
  /\ locked = 1 <=> \E p \in Owners : Holding(p)

\* What callers and observers are told of the mutex is true, although the code
\* reads and writes locked and owner in separate accesses.
AnswersSound == RepliesTruthful /\ ObserversSound

holder == IF \E p \in Owners : Holding(p) THEN CHOOSE p \in Owners : Holding(p)
          ELSE 0

Lock == INSTANCE AbstractLock WITH Procs <- Owners, Nobody <- 0

\* The mutex implements the abstract lock.
RefinesLock == Lock!Spec

\* An unlock that was not refused takes effect: its stores reach memory, and the
\* next exchange can find the mutex free.
UnlockTakesEffect ==
  \A p \in Owners : pc[p] = "clear_locked" ~> locked = 0
=============================================================================
