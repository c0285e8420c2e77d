-------------------------------- MODULE Mdl --------------------------------
(***************************************************************************)
(* The metadata locking subsystem of the SQL layer (sql/mdl.cc).  Each     *)
(* MDL_context (a connection) acquires tickets on MDL_locks, waits in      *)
(* their queues, looks for deadlocks while it waits, upgrades, downgrades  *)
(* and releases.                                                           *)
(*                                                                         *)
(* What a thread does under MDL_lock::m_rwlock is one step, but for the    *)
(* loop of reschedule_waiters(), which takes a step per waiter while the   *)
(* lock stays write-locked (writer).  A search for deadlocks is one step,  *)
(* taken when no lock on its way is write-locked: it holds m_rwlock and    *)
(* m_LOCK_waiting_for of its whole path when it finds a loop.  Out of      *)
(* memory, Galera (WSREP) and the BACKUP namespace are left out.           *)
(***************************************************************************)
EXTENDS MdlTypes, Integers, Sequences, FiniteSets, SequencesExt

CONSTANTS
  Contexts,           \* the MDL_contexts
  Locks,              \* the MDL_locks, numbers in the order of their keys
  Strategy,           \* per lock: its m_strategy
  TicketNumbers,      \* bound: tickets a context may have are numbered so
  NoTicket, NoContext, NoLock,
  Durations,          \* the lock durations in use
  Calls,              \* bound: per context, the requests of a call it may make
  UpgradeFrom,        \* bound: types that are upgraded
  UpgradeTo,          \* bound: types they are upgraded to
  DowngradeTo,        \* bound: types that X and SNW are downgraded to
  Aborts,             \* how a wait is given up: TIMEOUT, KILLED
  Disconnecting,      \* contexts whose client may go away during a wait
  MaxWriteLockCount,  \* max_write_lock_count
  MaxSearchDepth,     \* MAX_SEARCH_DEPTH of the deadlock detector
  MaxHog,             \* bound: m_hog_lock_count stops growing here
  MaxOverweight       \* bound: m_deadlock_overweight stops growing here

AllDurations == {"STATEMENT", "TRANSACTION", "EXPLICIT"}
Tickets == Contexts \X TicketNumbers
Request == [lock : Locks, type : Types, dur : Durations]

ASSUME MdlAssumption ==
  /\ Locks \subseteq Nat /\ NoLock \notin Locks
  /\ Strategy \in [Locks -> Strategies]
  /\ TicketNumbers \subseteq Nat
  /\ NoTicket \notin Tickets /\ NoContext \notin Contexts
  /\ Durations \subseteq AllDurations /\ "TRANSACTION" \in Durations
  /\ Calls \in [Contexts -> SUBSET SUBSET Request]
  /\ \A c \in Contexts : \A rs \in Calls[c] :
       \A r, q \in rs : r.dur = "EXPLICIT" => q = r
  /\ UpgradeFrom \subseteq Types /\ UpgradeTo \subseteq Types
  /\ DowngradeTo \subseteq Types
  /\ Aborts \subseteq {"TIMEOUT", "KILLED"}
  /\ Disconnecting \subseteq Contexts
  /\ MaxWriteLockCount \in Nat \ {0} /\ MaxSearchDepth \in Nat \ {0}
  /\ MaxHog \in Nat /\ MaxOverweight \in Nat

VARIABLES
  granted,      \* per lock: the tickets in m_granted
  waiting,      \* per lock: the tickets in m_waiting, oldest first
  gsum, wsum,   \* per lock: m_bitmap and m_type_counters of the two lists
  hog,          \* per lock: m_hog_lock_count
  writer,       \* per lock: who holds m_rwlock for writing between steps
  type,         \* per ticket: m_type, or "free" if it does not exist
  lockof,       \* per ticket: m_lock
  dur,          \* per ticket: m_duration
  status,       \* per context: m_wait.m_wait_status
  waiting_for,  \* per context: m_waiting_for
  overweight,   \* per context: m_deadlock_overweight
  m_tickets,    \* per context and duration: its tickets, newest first
  pc,           \* per context: where it is
  want,         \* per context: requests of acquire_locks() still to make
  svp,          \* per context: the MDL_savepoint of the call, and (only for
                \* the properties) the tickets held then
  mine,         \* per context: the ticket it waits for, or just got
  upgrade,      \* per context: ticket and new type of upgrade_shared_lock()
  result,       \* per context: wait_status of acquire_lock()
  victim,       \* per context: the victim its search found, still locked
  gone,         \* the contexts whose client has been found gone
  todo,         \* per context: tickets it goes on to release
  sched         \* per context: the state of its reschedule_waiters() loop

lockVars    == <<granted, waiting, gsum, wsum, hog, writer>>
ticketVars  == <<type, lockof, dur>>
waitVars    == <<status, waiting_for, overweight, victim, result, gone>>
contextVars == <<m_tickets, pc, want, svp, mine, upgrade, todo, sched>>
vars == <<lockVars, ticketVars, waitVars, contextVars>>

NoUpgrade == [ticket |-> NoTicket, type |-> "free"]
NoSavepoint == [stmt |-> NoTicket, trans |-> NoTicket, held |-> {}]
NoSched == [lock |-> NoLock, i |-> 0, skip |-> FALSE]
EmptySum == [bitmap |-> {}, count |-> [y \in Types |-> 0]]

Init ==
  /\ granted = [l \in Locks |-> {}] /\ waiting = [l \in Locks |-> <<>>]
  /\ gsum = [l \in Locks |-> EmptySum] /\ wsum = [l \in Locks |-> EmptySum]
  /\ hog = [l \in Locks |-> 0] /\ writer = [l \in Locks |-> NoContext]
  /\ type = [t \in Tickets |-> "free"]
  /\ lockof = [t \in Tickets |-> NoLock]
  /\ dur = [t \in Tickets |-> "TRANSACTION"]
  /\ status = [c \in Contexts |-> "EMPTY"]
  /\ waiting_for = [c \in Contexts |-> NoTicket]
  /\ overweight = [c \in Contexts |-> 0]
  /\ m_tickets = [c \in Contexts |-> [d \in AllDurations |-> <<>>]]
  /\ pc = [c \in Contexts |-> "idle"]
  /\ want = [c \in Contexts |-> {}]
  /\ svp = [c \in Contexts |-> NoSavepoint]
  /\ mine = [c \in Contexts |-> NoTicket]
  /\ upgrade = [c \in Contexts |-> NoUpgrade]
  /\ result = [c \in Contexts |-> "EMPTY"]
  /\ victim = [c \in Contexts |-> NoContext]
  /\ gone = {}
  /\ todo = [c \in Contexts |-> <<>>]
  /\ sched = [c \in Contexts |-> NoSched]
----------------------------------------------------------------------------
Ctx(t) == t[1]

Incompatible(l, y) == GrantedIncompatible(Strategy[l])[y]
Outranked(l, y) == WaitingIncompatible(Strategy[l])[y]

Hogs(l) == HogTypes(Strategy[l])

Held(c) == {t \in Tickets :
              \E d \in AllDurations : Contains(m_tickets[c][d], t)}

(* Mutant: the sentinel goes too.                                          *)
StoredBeforeInclusive(s, x) ==
  IF Contains(s, x) THEN SubSeq(s, 1, CHOOSE i \in 1 .. Len(s) : s[i] = x)
                    ELSE s

(* The elements of s before x: all of them if x is not there, which is     *)
(* also how a null sentinel is treated.                                    *)
StoredBefore(s, x) ==
  IF Contains(s, x)
  THEN SubSeq(s, 1, (CHOOSE i \in 1 .. Len(s) : s[i] = x) - 1)
  ELSE s

Newest(s) == IF s = <<>> THEN NoTicket ELSE s[1]

(* Ticket_list::add_ticket() and remove_ticket(), for a ticket of type y.  *)
(* The counter is a uint32_t that is only ever compared with 0 after a     *)
(* decrement: a negative number stands for a wrapped counter.              *)
AddTicket(s, y) ==
  [bitmap |-> s.bitmap \cup {y}, count |-> [s.count EXCEPT ![y] = @ + 1]]

(* Mutant: the bit is cleared while other tickets of the type remain.      *)
RemoveTicketUncounted(s, y) ==
  [bitmap |-> s.bitmap \ {y}, count |-> [s.count EXCEPT ![y] = @ - 1]]

RemoveTicket(s, y) ==
  [bitmap |-> IF s.count[y] = 1 THEN s.bitmap \ {y} ELSE s.bitmap,
   count  |-> [s.count EXCEPT ![y] = @ - 1]]

(* MDL_ticket::create(): a new request gets the first ticket that is free. *)
FreeTickets(c) == {t \in Tickets : Ctx(t) = c /\ type[t] = "free"}
IsFirstFree(c, t) ==
  t \in FreeTickets(c) /\ \A u \in FreeTickets(c) : t[2] <= u[2]

Create(t, r) ==
  /\ type' = [type EXCEPT ![t] = r.type]
  /\ lockof' = [lockof EXCEPT ![t] = r.lock]
  /\ dur' = [dur EXCEPT ![t] = r.dur]

(* Mutant: the ticket is not freed.                                        *)
DestroyNothing(t) == UNCHANGED ticketVars

Destroy(t) ==
  /\ type' = [type EXCEPT ![t] = "free"]
  /\ lockof' = [lockof EXCEPT ![t] = NoLock]
  /\ dur' = [dur EXCEPT ![t] = "TRANSACTION"]

(* Mutant: only the requests in the queue are looked at.                   *)
CanGrantPriority(l, y, c, ignore) ==
  ignore \/ wsum[l].bitmap \cap Outranked(l, y) = {}

(* MDL_lock::can_grant_lock()                                              *)
CanGrant(l, y, c, ignore) ==
  /\ ignore \/ wsum[l].bitmap \cap Outranked(l, y) = {}
  /\ \/ gsum[l].bitmap \cap Incompatible(l, y) = {}
     \/ \A u \in granted[l] : Ctx(u) = c \/ type[u] \notin Incompatible(l, y)

(* MDL_context::find_ticket(), among the tickets of one duration.          *)
Found(c, r, d) ==
  {t \in Tickets : /\ Contains(m_tickets[c][d], t)
                   /\ lockof[t] = r.lock
                   /\ StrongerOrEqual(Strategy[r.lock], type[t], r.type)}
Anywhere(c, r) == UNION {Found(c, r, d) : d \in AllDurations}

Push(c, d, t) == m_tickets' = [m_tickets EXCEPT ![c][d] = <<t>> \o @]
----------------------------------------------------------------------------
(* A call of acquire_lock() or, with several requests, of acquire_locks(): *)
(* the requests are served in the order of their keys.  try_acquire_lock() *)
(* is a call that may fail at once.                                        *)
Savepoint(c) == [stmt  |-> Newest(m_tickets[c]["STATEMENT"]),
                 trans |-> Newest(m_tickets[c]["TRANSACTION"]),
                 held  |-> Held(c)]

StartAcquire(c, rs) ==
  /\ pc[c] = "idle" /\ c \notin gone
  /\ Cardinality(FreeTickets(c)) >= Cardinality(rs)
  /\ want' = [want EXCEPT ![c] = rs]
  /\ svp' = [svp EXCEPT ![c] = Savepoint(c)]
  /\ pc' = [pc EXCEPT ![c] = "acquire"]
  /\ UNCHANGED <<lockVars, ticketVars, waitVars, m_tickets, mine, upgrade,
                 todo, sched>>

(* upgrade_shared_lock(t, y), unless t is strong enough already.           *)
StartUpgrade(c, t, y) ==
  LET r == [lock |-> lockof[t], type |-> y, dur |-> "TRANSACTION"] IN
  /\ pc[c] = "idle" /\ c \notin gone
  /\ t \in Held(c)
  /\ type[t] \in UpgradeFrom
  /\ ~StrongerOrEqual(Strategy[lockof[t]], type[t], y)
  /\ FreeTickets(c) # {} \/ Found(c, r, "TRANSACTION") # {}
  /\ want' = [want EXCEPT ![c] = {r}]
  /\ svp' = [svp EXCEPT ![c] = Savepoint(c)]
  /\ upgrade' = [upgrade EXCEPT ![c] = [ticket |-> t, type |-> y]]
  /\ pc' = [pc EXCEPT ![c] = "acquire"]
  /\ UNCHANGED <<lockVars, ticketVars, waitVars, m_tickets, mine, todo, sched>>

(* acquire_locks() takes the request with the smallest key next.           *)
IsNext(c, r) == r \in want[c] /\ \A q \in want[c] : r.lock <= q.lock

(* The request is granted with ticket t: merge it into the ticket being    *)
(* upgraded, go on with the next request, or return.                       *)
Got(c, t, rest) ==
  /\ want' = [want EXCEPT ![c] = rest]
  /\ mine' = [mine EXCEPT ![c] = IF upgrade[c] = NoUpgrade THEN NoTicket
                                                           ELSE t]
  /\ svp' = [svp EXCEPT ![c] = IF upgrade[c] = NoUpgrade /\ rest = {}
                               THEN NoSavepoint ELSE @]
  /\ pc' = [pc EXCEPT ![c] = IF upgrade[c] # NoUpgrade THEN "merge"
                             ELSE IF rest = {} THEN "idle" ELSE "acquire"]
  /\ UNCHANGED <<upgrade, todo, sched>>

AcquireReuse(c, r, t) ==
  /\ pc[c] = "acquire" /\ IsNext(c, r)
  /\ r.dur # "EXPLICIT"
  /\ t \in Found(c, r, r.dur)
  /\ Got(c, t, want[c] \ {r})
  /\ UNCHANGED <<lockVars, ticketVars, waitVars, m_tickets>>

(* clone_ticket(): a ticket of the requested type beside the one found.    *)
AcquireClone(c, r, t) ==
  /\ pc[c] = "acquire" /\ IsNext(c, r) /\ IsFirstFree(c, t)
  /\ Anywhere(c, r) # {}
  /\ r.dur = "EXPLICIT" \/ Found(c, r, r.dur) = {}
  /\ writer[r.lock] = NoContext
  /\ Create(t, r)
  /\ granted' = [granted EXCEPT ![r.lock] = @ \cup {t}]
  /\ gsum' = [gsum EXCEPT ![r.lock] = AddTicket(@, r.type)]
  /\ Push(c, r.dur, t)
  /\ Got(c, t, want[c] \ {r})
  /\ UNCHANGED <<waiting, wsum, hog, writer, waitVars>>

(* try_acquire_lock_impl() finds no conflict.                              *)
AcquireGrant(c, r, t) ==
  /\ pc[c] = "acquire" /\ IsNext(c, r) /\ IsFirstFree(c, t)
  /\ Anywhere(c, r) = {}
  /\ writer[r.lock] = NoContext
  /\ CanGrant(r.lock, r.type, c, FALSE)
  /\ Create(t, r)
  /\ granted' = [granted EXCEPT ![r.lock] = @ \cup {t}]
  /\ gsum' = [gsum EXCEPT ![r.lock] = AddTicket(@, r.type)]
  /\ Push(c, r.dur, t)
  /\ Got(c, t, want[c] \ {r})
  /\ UNCHANGED <<waiting, wsum, hog, writer, waitVars>>

(* Mutant: the context goes on to refer to its ticket.                     *)
FailKeepsTicket(c) ==
  /\ want' = [want EXCEPT ![c] = {}]
  /\ upgrade' = [upgrade EXCEPT ![c] = NoUpgrade]
  /\ svp' = [svp EXCEPT ![c] = NoSavepoint]
  /\ todo' = [todo EXCEPT ![c] = <<>>]
  /\ UNCHANGED mine

(* The call fails.  acquire_locks() rolls back to its savepoint; there is  *)
(* nothing to roll back in the other calls.                                *)
Fail(c) ==
  LET back == StoredBefore(m_tickets[c]["STATEMENT"], svp[c].stmt) \o
              StoredBefore(m_tickets[c]["TRANSACTION"], svp[c].trans)
  IN
  /\ want' = [want EXCEPT ![c] = {}]
  /\ mine' = [mine EXCEPT ![c] = NoTicket]
  /\ upgrade' = [upgrade EXCEPT ![c] = NoUpgrade]
  /\ svp' = [svp EXCEPT ![c] = NoSavepoint]
  /\ todo' = [todo EXCEPT ![c] = back]

Resting(s) == IF s = <<>> THEN "idle" ELSE "release"

(* A conflict, and lock_wait_timeout is 0.                                 *)
AcquireNoWait(c, r) ==
  /\ pc[c] = "acquire" /\ IsNext(c, r)
  /\ Anywhere(c, r) = {}
  /\ writer[r.lock] = NoContext
  /\ ~CanGrant(r.lock, r.type, c, FALSE)
  /\ Fail(c)
  /\ pc' = [pc EXCEPT ![c] = Resting(todo'[c])]
  /\ UNCHANGED <<lockVars, ticketVars, waitVars, m_tickets, sched>>

(* A conflict: join the queue with an empty wait slot.                     *)
AcquireEnqueue(c, r, t) ==
  /\ pc[c] = "acquire" /\ IsNext(c, r) /\ IsFirstFree(c, t)
  /\ Anywhere(c, r) = {}
  /\ writer[r.lock] = NoContext
  /\ ~CanGrant(r.lock, r.type, c, FALSE)
  /\ Create(t, r)
  /\ waiting' = [waiting EXCEPT ![r.lock] = Append(@, t)]
  /\ wsum' = [wsum EXCEPT ![r.lock] = AddTicket(@, r.type)]
  /\ status' = [status EXCEPT ![c] = "EMPTY"]
  /\ mine' = [mine EXCEPT ![c] = t]
  /\ want' = [want EXCEPT ![c] = @ \ {r}]
  /\ pc' = [pc EXCEPT ![c] = "queued"]
  /\ UNCHANGED <<granted, gsum, hog, writer, waiting_for, overweight, victim,
                 result, gone, m_tickets, svp, upgrade, todo, sched>>

WillWaitFor(c) ==
  /\ pc[c] = "queued"
  /\ waiting_for' = [waiting_for EXCEPT ![c] = mine[c]]
  /\ pc' = [pc EXCEPT ![c] = "search"]
  /\ UNCHANGED <<lockVars, ticketVars, status, overweight, victim, result,
                 gone, m_tickets, want, svp, mine, upgrade, todo, sched>>
----------------------------------------------------------------------------
(* Mutant: the wait slot is not looked at.                                 *)
EnteredAny(a) == waiting_for[a] # NoTicket

(* The deadlock detector.  A search enters the node of a context that is   *)
(* waiting and whose wait slot is still empty.                             *)
Entered(a) == waiting_for[a] # NoTicket /\ status[a] = "EMPTY"

(* The contexts that hold or are queued for what stands in a's way.        *)
Blockers(a) ==
  LET t == waiting_for[a]
      l == lockof[t]
  IN  {Ctx(u) : u \in {v \in granted[l] :
                         /\ Ctx(v) # a
                         /\ type[v] \in Incompatible(l, type[t])}}
      \cup
      {Ctx(u) : u \in {v \in Tickets :
                         /\ Contains(waiting[l], v)
                         /\ Ctx(v) # a
                         /\ type[v] \in Outranked(l, type[t])}}

(* A way of the search from c: every node is entered and blocks the one    *)
(* before, and none but the last may have an edge back to c.               *)
IsWalk(c, w) ==
  /\ w[1] = c
  /\ \A i \in DOMAIN w : Entered(w[i])
  /\ \A i \in DOMAIN w \ {1} :
       w[i] \in Blockers(w[i - 1]) /\ c \notin Blockers(w[i - 1])

Walks(c, n) == {w \in [1 .. n -> Contexts] : IsWalk(c, w)}

(* Mutant: off by one in the depth of the search.                          *)
LoopsShort(c) == {w \in UNION {Walks(c, n) : n \in 1 .. MaxSearchDepth - 2} :
                    c \in Blockers(w[Len(w)])}

(* The ways on which the search stops: a loop, or too long a way.          *)
Loops(c) == {w \in UNION {Walks(c, n) : n \in 1 .. MaxSearchDepth - 1} :
               c \in Blockers(w[Len(w)])}
DeadEnds(c) == Walks(c, MaxSearchDepth)

(* opt_change_victim_to(), from the end of the way back to c: the lightest *)
(* node, the one nearest to c among equals.                                *)
VictimWeight(a) == Weight(type[waiting_for[a]]) + overweight[a]
IsVictim(v, w) ==
  \E i \in DOMAIN w :
    /\ v = w[i]
    /\ \A j \in DOMAIN w : \/ VictimWeight(w[i]) < VictimWeight(w[j])
                           \/ VictimWeight(w[i]) = VictimWeight(w[j]) /\ i <= j

(* No lock that a search from c may visit is write-locked.                 *)
Reachable(c) ==
  {a \in Contexts : \E n \in 1 .. Cardinality(Contexts) :
                      \E w \in [1 .. n -> Contexts] :
                        /\ w[1] = c /\ w[n] = a
                        /\ \A i \in DOMAIN w : Entered(w[i])
                        /\ \A i \in DOMAIN w \ {1} : w[i] \in Blockers(w[i - 1])}
SearchUnblocked(c) ==
  \A a \in Reachable(c) \cup {c} :
    waiting_for[a] # NoTicket => writer[lockof[waiting_for[a]]] = NoContext

FindNoDeadlock(c) ==
  /\ pc[c] = "search"
  /\ SearchUnblocked(c)
  /\ Loops(c) = {} /\ DeadEnds(c) = {}
  /\ pc' = [pc EXCEPT ![c] = "wait"]
  /\ UNCHANGED <<lockVars, ticketVars, waitVars, m_tickets, want, svp, mine,
                 upgrade, todo, sched>>

FindVictim(c, v) ==
  /\ pc[c] = "search"
  /\ SearchUnblocked(c)
  /\ \E w \in Loops(c) \cup DeadEnds(c) : IsVictim(v, w)
  /\ victim' = [victim EXCEPT ![c] = v]
  /\ pc' = [pc EXCEPT ![c] = "victim"]
  /\ UNCHANGED <<lockVars, ticketVars, status, waiting_for, overweight, result,
                 gone, m_tickets, want, svp, mine, upgrade, todo, sched>>

(* Mutant: another context than c is not told.                             *)
SetVictimSelf(c) ==
  LET v == victim[c] IN
  /\ pc[c] = "victim"
  /\ status' = [status EXCEPT ![c] = IF v = c /\ @ = "EMPTY" THEN "VICTIM"
                                                             ELSE @]
  /\ victim' = [victim EXCEPT ![c] = NoContext]
  /\ pc' = [pc EXCEPT ![c] = IF v = c THEN "wait" ELSE "search"]
  /\ UNCHANGED <<lockVars, ticketVars, waiting_for, overweight, result, gone,
                 m_tickets, want, svp, mine, upgrade, todo, sched>>

(* The victim learns of it unless its wait slot is taken already; search   *)
(* again unless the victim is c itself.                                    *)
SetVictim(c) ==
  LET v == victim[c] IN
  /\ pc[c] = "victim"
  /\ status' = [status EXCEPT ![v] = IF @ = "EMPTY" THEN "VICTIM" ELSE @]
  /\ overweight' = [overweight EXCEPT ![v] = IF @ < MaxOverweight THEN @ + 1
                                                                 ELSE @]
  /\ victim' = [victim EXCEPT ![c] = NoContext]
  /\ pc' = [pc EXCEPT ![c] = IF v = c THEN "wait" ELSE "search"]
  /\ UNCHANGED <<lockVars, ticketVars, waiting_for, result, gone, m_tickets,
                 want, svp, mine, upgrade, todo, sched>>
----------------------------------------------------------------------------
(* timed_wait(): somebody filled the wait slot.                            *)
WaitSignalled(c) ==
  /\ pc[c] = "wait"
  /\ status[c] # "EMPTY"
  /\ result' = [result EXCEPT ![c] = status[c]]
  /\ pc' = [pc EXCEPT ![c] = "done"]
  /\ UNCHANGED <<lockVars, ticketVars, status, waiting_for, overweight, victim,
                 gone, m_tickets, want, svp, mine, upgrade, todo, sched>>

(* timed_wait(): time out or kill; the slot is closed in the same breath.  *)
WaitAborted(c, a) ==
  /\ pc[c] = "wait"
  /\ status[c] = "EMPTY"
  /\ status' = [status EXCEPT ![c] = a]
  /\ result' = [result EXCEPT ![c] = a]
  /\ pc' = [pc EXCEPT ![c] = "done"]
  /\ UNCHANGED <<lockVars, ticketVars, waiting_for, overweight, victim, gone,
                 m_tickets, want, svp, mine, upgrade, todo, sched>>

(* acquire_lock() finds the client gone after a short wait: it proceeds as *)
(* after a time out, but the slot stays as it is.                          *)
WaitDisconnected(c) ==
  /\ pc[c] = "wait"
  /\ c \in Disconnecting
  /\ status[c] = "EMPTY"
  /\ result' = [result EXCEPT ![c] = "TIMEOUT"]
  /\ gone' = gone \cup {c}
  /\ pc' = [pc EXCEPT ![c] = "done"]
  /\ UNCHANGED <<lockVars, ticketVars, status, waiting_for, overweight, victim,
                 m_tickets, want, svp, mine, upgrade, todo, sched>>

(* Mutant: no wait for the detector.                                       *)
UnlockedAlways(c) == TRUE

(* done_waiting_for() has to wait while a detector has c locked as victim. *)
Unlocked(c) == \A d \in Contexts : victim[d] # c

DoneGranted(c) ==
  /\ pc[c] = "done"
  /\ result[c] = "GRANTED"
  /\ Unlocked(c)
  /\ waiting_for' = [waiting_for EXCEPT ![c] = NoTicket]
  /\ result' = [result EXCEPT ![c] = "EMPTY"]
  /\ Push(c, dur[mine[c]], mine[c])
  /\ Got(c, mine[c], want[c])
  /\ UNCHANGED <<lockVars, ticketVars, status, overweight, victim, gone>>

DoneFailed(c) ==
  /\ pc[c] = "done"
  /\ result[c] # "GRANTED"
  /\ Unlocked(c)
  /\ waiting_for' = [waiting_for EXCEPT ![c] = NoTicket]
  /\ result' = [result EXCEPT ![c] = "EMPTY"]
  /\ pc' = [pc EXCEPT ![c] = "withdraw"]
  /\ UNCHANGED <<lockVars, ticketVars, status, overweight, victim, gone,
                 m_tickets, want, svp, mine, upgrade, todo, sched>>
----------------------------------------------------------------------------
(* MDL_lock::remove_ticket() has removed a ticket from lock l and g and w  *)
(* are the bitmaps and counters now.  The last ticket takes the MDL_lock   *)
(* with it: the next one for this key is a new object or a recycled one,   *)
(* which lf_hash_initializer() leaves as it is but for key and strategy.   *)
IsEmpty(l) == granted'[l] = {} /\ waiting'[l] = <<>>

LeaveNew(c, l, g, w) ==
  /\ IsEmpty(l)
  /\ gsum' = [g EXCEPT ![l] = EmptySum] /\ wsum' = [w EXCEPT ![l] = EmptySum]
  /\ hog' = [hog EXCEPT ![l] = 0]
  /\ pc' = [pc EXCEPT ![c] = Resting(todo'[c])]
  /\ UNCHANGED <<writer, sched>>

LeaveRecycled(c, l, g, w) ==
  /\ IsEmpty(l)
  /\ gsum' = g /\ wsum' = w
  /\ pc' = [pc EXCEPT ![c] = Resting(todo'[c])]
  /\ UNCHANGED <<hog, writer, sched>>

(* reschedule_waiters(), from here to RescheduleEnd.  The strong requests  *)
(* are passed over when they have had more than their share.               *)
BeginReschedule(c, l, g, w) ==
  /\ ~IsEmpty(l)
  /\ gsum' = g /\ wsum' = w
  /\ writer' = [writer EXCEPT ![l] = c]
  /\ sched' = [sched EXCEPT ![c] =
       [lock |-> l, i |-> 1,
        skip |-> /\ hog[l] >= MaxWriteLockCount
                 /\ w[l].bitmap \ Hogs(l) # {}]]
  /\ pc' = [pc EXCEPT ![c] = "reschedule"]
  /\ UNCHANGED hog

(* A failed wait: the request leaves the queue.  The list node is unlinked *)
(* from whichever list it is in, the bitmap and the counter are those of   *)
(* m_waiting.                                                              *)
Withdraw(c) ==
  LET t == mine[c]
      l == lockof[t]
      w == [wsum EXCEPT ![l] = RemoveTicket(@, type[t])]
  IN
  /\ pc[c] = "withdraw"
  /\ writer[l] = NoContext
  /\ waiting' = [waiting EXCEPT ![l] = RemoveFirst(@, t)]
  /\ granted' = [granted EXCEPT ![l] = @ \ {t}]
  /\ Destroy(t)
  /\ Fail(c)
  /\ \/ LeaveNew(c, l, gsum, w)
     \/ LeaveRecycled(c, l, gsum, w)
     \/ BeginReschedule(c, l, gsum, w)
  /\ UNCHANGED <<waitVars, m_tickets>>

(* release_lock() of the next ticket to go.                                *)
ReleaseLock(c) ==
  LET t == Head(todo[c])
      l == lockof[t]
      g == [gsum EXCEPT ![l] = RemoveTicket(@, type[t])]
  IN
  /\ pc[c] = "release"
  /\ writer[l] = NoContext
  /\ granted' = [granted EXCEPT ![l] = @ \ {t}]
  /\ m_tickets' = [m_tickets EXCEPT ![c] =
                     [d \in AllDurations |-> RemoveFirst(@[d], t)]]
  /\ todo' = [todo EXCEPT ![c] = Tail(@)]
  /\ Destroy(t)
  /\ UNCHANGED waiting
  /\ \/ LeaveNew(c, l, g, wsum)
     \/ LeaveRecycled(c, l, g, wsum)
     \/ BeginReschedule(c, l, g, wsum)
  /\ UNCHANGED <<waitVars, want, svp, mine, upgrade>>

(* MDL_ticket::downgrade_lock()                                            *)
Downgrade(c, t, y) ==
  LET l == lockof[t] IN
  /\ pc[c] = "idle"
  /\ t \in Held(c)
  /\ type[t] \in {"X", "SNW"} /\ type[t] # y
  /\ StrongerOrEqual(Strategy[l], type[t], y)
  /\ writer[l] = NoContext
  /\ type' = [type EXCEPT ![t] = y]
  /\ UNCHANGED <<granted, waiting, todo>>
  /\ BeginReschedule(c, l, [gsum EXCEPT ![l] =
       AddTicket(RemoveTicket(@, type[t]), y)], wsum)
  /\ UNCHANGED <<lockof, dur, waitVars, m_tickets, want, svp, mine, upgrade>>

(* The ticket reschedule_waiters() looks at.                               *)
Candidate(c) == waiting[sched[c].lock][sched[c].i]

Grantable(c) ==
  LET t == Candidate(c)
      l == sched[c].lock
  IN  /\ ~(sched[c].skip /\ type[t] \in Hogs(l))
      /\ CanGrant(l, type[t], Ctx(t), sched[c].skip)
      /\ status[Ctx(t)] = "EMPTY"

Rescheduling(c) ==
  pc[c] = "reschedule" /\ sched[c].i <= Len(waiting[sched[c].lock])

RescheduleGrant(c) ==
  LET t == Candidate(c)
      l == sched[c].lock
  IN
  /\ Rescheduling(c)
  /\ Grantable(c)
  /\ status' = [status EXCEPT ![Ctx(t)] = "GRANTED"]
  /\ waiting' = [waiting EXCEPT ![l] = RemoveFirst(@, t)]
  /\ wsum' = [wsum EXCEPT ![l] = RemoveTicket(@, type[t])]
  /\ granted' = [granted EXCEPT ![l] = @ \cup {t}]
  /\ gsum' = [gsum EXCEPT ![l] = AddTicket(@, type[t])]
  /\ hog' = [hog EXCEPT ![l] = IF type[t] \in Hogs(l) /\ @ < MaxHog
                               THEN @ + 1 ELSE @]
  /\ UNCHANGED <<writer, ticketVars, waiting_for, overweight, victim, result,
                 gone, contextVars>>

(* Mutant: the first request that cannot be granted ends the loop.         *)
ReschedulePassAll(c) ==
  /\ Rescheduling(c)
  /\ ~Grantable(c)
  /\ sched' = [sched EXCEPT ![c].i = Len(waiting[sched[c].lock]) + 1]
  /\ UNCHANGED <<lockVars, ticketVars, waitVars, m_tickets, pc, want, svp,
                 mine, upgrade, todo>>

ReschedulePass(c) ==
  /\ Rescheduling(c)
  /\ ~Grantable(c)
  /\ sched' = [sched EXCEPT ![c].i = @ + 1]
  /\ UNCHANGED <<lockVars, ticketVars, waitVars, m_tickets, pc, want, svp,
                 mine, upgrade, todo>>

RescheduleEnd(c) ==
  LET l == sched[c].lock IN
  /\ pc[c] = "reschedule"
  /\ sched[c].i > Len(waiting[l])
  /\ hog' = [hog EXCEPT ![l] = IF wsum[l].bitmap \ Hogs(l) = {} THEN 0 ELSE @]
  /\ writer' = [writer EXCEPT ![l] = NoContext]
  /\ sched' = [sched EXCEPT ![c] = NoSched]
  /\ pc' = [pc EXCEPT ![c] = Resting(todo[c])]
  /\ UNCHANGED <<granted, waiting, gsum, wsum, ticketVars, waitVars, m_tickets,
                 want, svp, mine, upgrade, todo>>

(* upgrade_shared_lock() merges the acquired ticket into the original one. *)
(* has_lock(): a ticket taken after the savepoint is a new one.            *)
IsNew(c, t) ==
  \/ Contains(StoredBefore(m_tickets[c]["STATEMENT"], svp[c].stmt), t)
  \/ Contains(StoredBefore(m_tickets[c]["TRANSACTION"], svp[c].trans), t)

UpgradeDone(c) ==
  /\ mine' = [mine EXCEPT ![c] = NoTicket]
  /\ upgrade' = [upgrade EXCEPT ![c] = NoUpgrade]
  /\ svp' = [svp EXCEPT ![c] = NoSavepoint]
  /\ pc' = [pc EXCEPT ![c] = "idle"]
  /\ UNCHANGED <<waiting, wsum, hog, writer, waitVars, want, todo, sched>>

MergeNew(c) ==
  LET t == mine[c]
      o == upgrade[c].ticket
      y == upgrade[c].type
      l == lockof[o]
  IN
  /\ pc[c] = "merge"
  /\ IsNew(c, t)
  /\ writer[l] = NoContext
  /\ granted' = [granted EXCEPT ![l] = @ \ {t}]
  /\ gsum' = [gsum EXCEPT ![l] =
       AddTicket(RemoveTicket(RemoveTicket(@, type[t]), type[o]), y)]
  /\ type' = [type EXCEPT ![o] = y, ![t] = "free"]
  /\ lockof' = [lockof EXCEPT ![t] = NoLock]
  /\ dur' = [dur EXCEPT ![t] = "TRANSACTION"]
  /\ m_tickets' = [m_tickets EXCEPT ![c]["TRANSACTION"] = RemoveFirst(@, t)]
  /\ UpgradeDone(c)

MergeReused(c) ==
  LET o == upgrade[c].ticket
      y == upgrade[c].type
      l == lockof[o]
  IN
  /\ pc[c] = "merge"
  /\ ~IsNew(c, mine[c])
  /\ writer[l] = NoContext
  /\ gsum' = [gsum EXCEPT ![l] = AddTicket(RemoveTicket(@, type[o]), y)]
  /\ type' = [type EXCEPT ![o] = y]
  /\ UNCHANGED <<granted, lockof, dur, m_tickets>>
  /\ UpgradeDone(c)
----------------------------------------------------------------------------
(* The calls that release tickets, one ReleaseLock after the other.        *)
StartRelease(c, s) ==
  /\ pc[c] = "idle"
  /\ s # <<>>
  /\ todo' = [todo EXCEPT ![c] = s]
  /\ pc' = [pc EXCEPT ![c] = "release"]
  /\ UNCHANGED <<lockVars, ticketVars, waitVars, m_tickets, want, svp, mine,
                 upgrade, sched>>

ReleaseTransactionalLocks(c) ==
  StartRelease(c, m_tickets[c]["STATEMENT"] \o m_tickets[c]["TRANSACTION"])

ReleaseStatementLocks(c) == StartRelease(c, m_tickets[c]["STATEMENT"])

ReleaseExplicitLocks(c) == StartRelease(c, m_tickets[c]["EXPLICIT"])

ReleaseExplicitLock(c, t) ==
  /\ Contains(m_tickets[c]["EXPLICIT"], t)
  /\ StartRelease(c, <<t>>)

(* Those of one lock, in the order of the list.                            *)
ReleaseAllLocksForName(c, l) ==
  LET m == m_tickets[c]["EXPLICIT"]
      same == {i \in DOMAIN m : lockof[m[i]] = l}
  IN  \E k \in [1 .. Cardinality(same) -> same] :
        /\ \A i, j \in DOMAIN k : i < j => k[i] < k[j]
        /\ StartRelease(c, [i \in DOMAIN k |-> m[k[i]]])

(* rollback_to_savepoint(): t was the newest transactional ticket when the *)
(* savepoint was set, in a statement that has ended.                       *)
RollbackToSavepoint(c, t) ==
  /\ Contains(m_tickets[c]["TRANSACTION"], t)
  /\ StartRelease(c, m_tickets[c]["STATEMENT"] \o
                     StoredBefore(m_tickets[c]["TRANSACTION"], t))

(* The calls that move tickets of an idle context between its lists.       *)
Moved(c, lists, moved, d) ==
  /\ pc[c] = "idle"
  /\ m_tickets' = [m_tickets EXCEPT ![c] = lists]
  /\ dur' = [t \in Tickets |-> IF Contains(moved, t) THEN d ELSE dur[t]]
  /\ UNCHANGED <<lockVars, type, lockof, waitVars, pc, want, svp, mine,
                 upgrade, todo, sched>>

InOneList(s, d) == [e \in AllDurations |-> IF e = d THEN s ELSE <<>>]

SetLockDuration(c, t, d) ==
  LET m == m_tickets[c] IN
  /\ Contains(m["TRANSACTION"], t)
  /\ d # "TRANSACTION"
  /\ Moved(c, [m EXCEPT !["TRANSACTION"] = RemoveFirst(@, t),
                        ![d] = <<t>> \o @], <<t>>, d)

(* Mutant: the locks of the statement are forgotten.                       *)
SetExplicitDurationForSomeLocks(c) ==
  LET m   == m_tickets[c]
      all == Reverse(m["EXPLICIT"]) \o m["TRANSACTION"]
  IN  Moved(c, InOneList(all, "EXPLICIT"), all, "EXPLICIT")

SetExplicitDurationForAllLocks(c) ==
  LET m   == m_tickets[c]
      all == Reverse(m["EXPLICIT"]) \o Reverse(m["STATEMENT"])
               \o m["TRANSACTION"]
  IN  Moved(c, InOneList(all, "EXPLICIT"), all, "EXPLICIT")

SetTransactionDurationForAllLocks(c) ==
  LET m   == m_tickets[c]
      all == Reverse(m["TRANSACTION"]) \o m["EXPLICIT"]
  IN
  /\ m["STATEMENT"] = <<>>
  /\ Moved(c, InOneList(all, "TRANSACTION"), all, "TRANSACTION")
----------------------------------------------------------------------------
Start(c) ==
  \/ \E rs \in Calls[c] : StartAcquire(c, rs)
  \/ \E t \in Tickets, y \in UpgradeTo : StartUpgrade(c, t, y)
  \/ \E t \in Tickets, y \in DowngradeTo : Downgrade(c, t, y)
  \/ ReleaseTransactionalLocks(c)
  \/ ReleaseStatementLocks(c)
  \/ ReleaseExplicitLocks(c)
  \/ \E t \in Tickets : ReleaseExplicitLock(c, t)
  \/ \E l \in Locks : ReleaseAllLocksForName(c, l)
  \/ \E t \in Tickets : RollbackToSavepoint(c, t)
  \/ \E t \in Tickets, d \in Durations : SetLockDuration(c, t, d)
  \/ "EXPLICIT" \in Durations /\ SetExplicitDurationForAllLocks(c)
  \/ "EXPLICIT" \in Durations /\ SetTransactionDurationForAllLocks(c)

(* What a context does inside a call.                                      *)
Continue(c) ==
  \/ \E r \in want[c] :
       \E t \in Tickets : \/ AcquireReuse(c, r, t) \/ AcquireClone(c, r, t)
                         \/ AcquireGrant(c, r, t) \/ AcquireEnqueue(c, r, t)
  \/ WillWaitFor(c)
  \/ FindNoDeadlock(c) \/ \E v \in Contexts : FindVictim(c, v)
  \/ SetVictim(c)
  \/ WaitSignalled(c) \/ \E a \in Aborts : WaitAborted(c, a)
  \/ DoneGranted(c) \/ DoneFailed(c) \/ Withdraw(c)
  \/ ReleaseLock(c)
  \/ RescheduleGrant(c) \/ ReschedulePass(c) \/ RescheduleEnd(c)
  \/ MergeNew(c) \/ MergeReused(c)

(* What may happen instead.                                                *)
GiveUp(c) ==
  \/ "TIMEOUT" \in Aborts /\ \E r \in want[c] : AcquireNoWait(c, r)
  \/ WaitDisconnected(c)

Next == \E c \in Contexts : Start(c) \/ Continue(c) \/ GiveUp(c)

(* A context inside a call runs on unless it is blocked, and it is not     *)
(* passed over for ever by the read-write locks on its way (m_rwlock,      *)
(* m_LOCK_waiting_for): these are free again and again.                    *)
Fairness == \A c \in Contexts : SF_vars(Continue(c))

Spec == Init /\ [][Next]_vars /\ Fairness

(* In addition, no client keeps its locks for ever.                        *)
TransactionsEnd ==
  \A c \in Contexts : /\ SF_vars(ReleaseTransactionalLocks(c))
                      /\ SF_vars(ReleaseExplicitLocks(c))

FairSpec == Spec /\ TransactionsEnd
----------------------------------------------------------------------------
Places == {"idle", "acquire", "queued", "search", "victim", "wait", "done",
           "withdraw", "release", "reschedule", "merge"}
Statuses == {"EMPTY", "GRANTED", "VICTIM", "TIMEOUT", "KILLED"}
Sum == [bitmap : SUBSET Types, count : [Types -> Int]]

(* Every variable has its type, and a context has a ticket in hand, a      *)
(* victim locked or a lock write-locked exactly where its call needs it.   *)
MdlTypeOK ==
  /\ granted \in [Locks -> SUBSET Tickets]
  /\ waiting \in [Locks -> Seq(Tickets)]
  /\ gsum \in [Locks -> Sum] /\ wsum \in [Locks -> Sum]
  /\ hog \in [Locks -> 0 .. MaxHog]
  /\ writer \in [Locks -> Contexts \cup {NoContext}]
  /\ type \in [Tickets -> Types \cup {"free"}]
  /\ lockof \in [Tickets -> Locks \cup {NoLock}]
  /\ dur \in [Tickets -> AllDurations]
  /\ status \in [Contexts -> Statuses] /\ result \in [Contexts -> Statuses]
  /\ waiting_for \in [Contexts -> Tickets \cup {NoTicket}]
  /\ overweight \in [Contexts -> 0 .. MaxOverweight]
  /\ victim \in [Contexts -> Contexts \cup {NoContext}]
  /\ gone \subseteq Contexts
  /\ m_tickets \in [Contexts -> [AllDurations -> Seq(Tickets)]]
  /\ pc \in [Contexts -> Places]
  /\ want \in [Contexts -> SUBSET Request]
  /\ mine \in [Contexts -> Tickets \cup {NoTicket}]
  /\ todo \in [Contexts -> Seq(Tickets)]
  /\ \A c \in Contexts :
       /\ mine[c] = NoTicket <=>
            pc[c] \in {"idle", "acquire", "release", "reschedule"}
       /\ victim[c] # NoContext <=> pc[c] = "victim"
       /\ sched[c] # NoSched <=> pc[c] = "reschedule"
       /\ pc[c] = "reschedule" <=> \E l \in Locks : writer[l] = c

(* The purpose of metadata locks: no two contexts ever have incompatible   *)
(* locks on an object, whatever was requested, upgraded, merged, cloned,   *)
(* downgraded, granted by others or given up.                              *)
GrantedCompatible ==
  \A l \in Locks : \A t, u \in granted[l] :
    Ctx(t) # Ctx(u) => type[u] \notin Incompatible(l, type[t])

(* "Bitmap of types of tickets in this list" (Ticket_list): the bitmaps    *)
(* and counters that decide about grants agree with the two lists.         *)
Summary(S) == [bitmap |-> {type[t] : t \in S},
               count  |-> [y \in Types |-> Cardinality({t \in S : type[t] = y})]]
BitmapsTell ==
  \A l \in Locks : /\ gsum[l] = Summary(granted[l])
                   /\ wsum[l] = Summary(ToSet(waiting[l]))

(* A context between calls has in its lists exactly the tickets it owns,   *)
(* each once, in the list of its duration, and all of them granted: none   *)
(* leaks and none dangles after any mix of waits, merges and rollbacks.    *)
Owned(c) == {t \in Tickets : Ctx(t) = c /\ type[t] # "free"}
TicketsAccounted ==
  \A c \in Contexts : pc[c] = "idle" =>
    /\ Owned(c) = Held(c)
    /\ \A d \in AllDurations :
         /\ IsInjective(m_tickets[c][d])
         /\ \A t \in ToSet(m_tickets[c][d]) :
              dur[t] = d /\ t \in granted[lockof[t]]

(* What keeps a queued request waiting by the two matrices: a grant of     *)
(* somebody else it is not compatible with, or a queued request of higher  *)
(* priority.                                                               *)
Blocked(l, t) ==
  \/ \E u \in granted[l] :
       Ctx(u) # Ctx(t) /\ type[u] \in Incompatible(l, type[t])
  \/ \E u \in ToSet(waiting[l]) : type[u] \in Outranked(l, type[t])

(* While nobody has the lock write-locked, no queued weak request with an  *)
(* open wait slot is grantable: a release, downgrade or withdrawal serves  *)
(* every weak request it enables in its one pass over the queue, also past *)
(* requests that stay and at max_write_lock_count.  (Of strong requests    *)
(* this is not true there: some are passed over for nothing.)              *)
NoWeakMissed ==
  \A l \in Locks : writer[l] = NoContext =>
    \A t \in ToSet(waiting[l]) :
      status[Ctx(t)] = "EMPTY" /\ type[t] \notin Hogs(l) => Blocked(l, t)

(* Contexts whose searches are over never wait for each other in a ring:   *)
(* one of them has been made a victim, or somebody still searches.         *)
NoUndetectedDeadlock ==
  \A S \in SUBSET {c \in Contexts : pc[c] = "wait" /\ status[c] = "EMPTY"} :
    S # {} => \E a \in S : Blockers(a) \cap S = {}

(* A victim is chosen only for a ring of requests that really are queued:  *)
(* none whose request was granted but who has not noticed yet counts.      *)
ReallyWaits(a) ==
  LET t == waiting_for[a] IN t # NoTicket /\ Contains(waiting[lockof[t]], t)
NoFalseDeadlock ==
  [][\A c, v \in Contexts : FindVictim(c, v) =>
       \E S \in SUBSET Contexts :
         v \in S /\ \A a \in S : ReallyWaits(a) /\ Blockers(a) \cap S # {}]_vars

(* A context that is about to be told it is a victim is still in the wait  *)
(* it was found in: the verdict cannot hit a later wait of that context.   *)
VictimIsWaiting ==
  \A c \in Contexts : victim[c] # NoContext =>
    /\ waiting_for[victim[c]] # NoTicket
    /\ pc[victim[c]] \in {"search", "victim", "wait", "done"}

(* A call that fails goes back to exactly the tickets the context had when *)
(* it began, however many of its requests had been satisfied.              *)
AllOrNothing ==
  [][\A c \in Contexts :
       Withdraw(c) \/ (\E r \in want[c] : AcquireNoWait(c, r)) =>
         Held(c) \ ToSet(todo'[c]) = svp[c].held]_vars

(* Every call returns, granted or as a victim.  Without time limits and    *)
(* with clients that end their transactions, this takes complete deadlock  *)
(* detection, a verdict for every ring and no lost grant or wake-up.  (It  *)
(* is checked of two sessions: with more, a weak request can starve.)      *)
EveryCallReturns == \A c \in Contexts : pc[c] # "idle" ~> pc[c] = "idle"
=============================================================================
