----------------------------- MODULE MdlProofs -----------------------------
(***************************************************************************)
(* Proofs about Mdl, for any contexts, locks, calls and bounds: metadata   *)
(* locks exclude each other, no ticket leaks or dangles, a failed call     *)
(* takes back what it got, a verdict hits the wait it was meant for.       *)
(***************************************************************************)
EXTENDS MdlListProofs

Pending == {"queued", "search", "victim", "wait", "done", "withdraw"}

(* The ticket is in the list of its duration; its context's call is about  *)
(* to get it or to give it up.                                             *)
Listed(t) == Contains(m_tickets[Ctx(t)][dur[t]], t)
IsPending(t) == pc[Ctx(t)] \in Pending /\ mine[Ctx(t)] = t

MaybeTicket == Tickets \cup {NoTicket}

TypeInv ==
  /\ granted \in [Locks -> SUBSET Tickets]
  /\ waiting \in [Locks -> Seq(Tickets)]
  /\ gsum \in [Locks -> Sum] /\ wsum \in [Locks -> Sum]
  /\ hog \in [Locks -> 0 .. MaxHog]
  /\ writer \in [Locks -> Contexts \cup {NoContext}]
  /\ type \in [Tickets -> Types \cup {"free"}]
  /\ lockof \in [Tickets -> Locks \cup {NoLock}]
  /\ dur \in [Tickets -> AllDurations]
  /\ status \in [Contexts -> Statuses] /\ result \in [Contexts -> Statuses]
  /\ waiting_for \in [Contexts -> MaybeTicket]
  /\ overweight \in [Contexts -> 0 .. MaxOverweight]
  /\ victim \in [Contexts -> Contexts \cup {NoContext}]
  /\ gone \subseteq Contexts
  /\ m_tickets \in [Contexts -> [AllDurations -> Seq(Tickets)]]
  /\ pc \in [Contexts -> Places]
  /\ want \in [Contexts -> SUBSET Request]
  /\ svp \in [Contexts -> [stmt : MaybeTicket, trans : MaybeTicket,
                           held : SUBSET Tickets]]
  /\ mine \in [Contexts -> MaybeTicket]
  /\ upgrade \in [Contexts -> [ticket : MaybeTicket, type : Types \cup {"free"}]]
  /\ todo \in [Contexts -> Seq(Tickets)]
  /\ sched \in [Contexts -> [lock : Locks \cup {NoLock}, i : Nat, skip : BOOLEAN]]

(* What a context has in hand where.                                       *)
Control(c) ==
  /\ mine[c] = NoTicket <=> pc[c] \in {"idle", "acquire", "release", "reschedule"}
  /\ victim[c] # NoContext <=> pc[c] = "victim"
  /\ sched[c] # NoSched <=> pc[c] = "reschedule"
  /\ pc[c] = "reschedule" =>
       sched[c].lock \in Locks /\ sched[c].i # 0 /\ writer[sched[c].lock] = c
  /\ pc[c] = "release" => todo[c] # <<>>
  /\ todo[c] # <<>> => pc[c] \in {"release", "reschedule"}
  /\ waiting_for[c] # NoTicket <=> pc[c] \in {"search", "victim", "wait", "done"}
  /\ upgrade[c] # NoUpgrade =>
       pc[c] \in {"acquire", "merge"} \cup Pending
  /\ pc[c] = "merge" => upgrade[c] # NoUpgrade

WriterRight ==
  \A l \in Locks : writer[l] # NoContext =>
    pc[writer[l]] = "reschedule" /\ sched[writer[l]].lock = l

(* The tickets in the lists of a context.                                  *)
ListsRight ==
  \A c \in Contexts, d \in AllDurations :
    /\ IsInjective(m_tickets[c][d])
    /\ \A t \in Tickets : Contains(m_tickets[c][d], t) =>
         /\ Ctx(t) = c /\ dur[t] = d
         /\ type[t] # "free" /\ t \in granted[lockof[t]]

(* Every ticket is on its way into a list, or in one.                      *)
TicketsRight ==
  \A t \in Tickets : type[t] # "free" =>
    lockof[t] \in Locks /\ (Listed(t) \/ IsPending(t))

GrantedRight ==
  \A l \in Locks : \A t \in granted[l] : lockof[t] = l /\ type[t] # "free"

WaitingRight ==
  \A l \in Locks :
    /\ IsInjective(waiting[l])
    /\ \A t \in Tickets : Contains(waiting[l], t) =>
         /\ lockof[t] = l /\ type[t] # "free"
         /\ t \notin granted[l] /\ IsPending(t)

(* The ticket of a call under way is queued or, once the wait slot says    *)
(* so, granted.                                                            *)
PendingRight(c) ==
  LET t == mine[c] IN
  /\ Ctx(t) = c /\ type[t] # "free"
  /\ \A d \in AllDurations : ~Contains(m_tickets[c][d], t)
  /\ status[c] = "GRANTED" <=> t \in granted[lockof[t]]
  /\ status[c] # "GRANTED" => Contains(waiting[lockof[t]], t)
  /\ pc[c] = "done" /\ result[c] = "GRANTED" => status[c] = "GRANTED"
  /\ c \notin Disconnecting =>
       /\ pc[c] = "done" => status[c] = result[c] /\ status[c] # "EMPTY"
       /\ pc[c] = "withdraw" => status[c] \notin {"EMPTY", "GRANTED"}

TodoRight(c) ==
  /\ IsInjective(todo[c])
  /\ \A t \in Tickets : Contains(todo[c], t) => Ctx(t) = c /\ Listed(t)

(* An upgrade keeps its ticket, and acquires one as strong as it wants.    *)
UpgradeRight(c) ==
  LET o == upgrade[c].ticket
      y == upgrade[c].type
  IN
  /\ o \in Tickets /\ y \in Types
  /\ Ctx(o) = c /\ Listed(o) /\ type[o] \in UpgradeFrom
  /\ ~StrongerOrEqual(Strategy[lockof[o]], type[o], y)
  /\ pc[c] = "acquire" =>
       want[c] = {[lock |-> lockof[o], type |-> y, dur |-> "TRANSACTION"]}
  /\ pc[c] \in Pending =>
       /\ lockof[mine[c]] = lockof[o]
       /\ type[mine[c]] = y /\ dur[mine[c]] = "TRANSACTION"
  /\ pc[c] = "merge" =>
       /\ Contains(m_tickets[c]["TRANSACTION"], mine[c])
       /\ lockof[mine[c]] = lockof[o]
       /\ StrongerOrEqual(Strategy[lockof[o]], type[mine[c]], y)

(* The savepoint of a call tells its tickets from those held before.       *)
Since(c, t) ==
  \/ Contains(StoredBefore(m_tickets[c]["STATEMENT"], svp[c].stmt), t)
  \/ Contains(StoredBefore(m_tickets[c]["TRANSACTION"], svp[c].trans), t)

SavepointRight(c) ==
  /\ svp[c].stmt # NoTicket => Contains(m_tickets[c]["STATEMENT"], svp[c].stmt)
  /\ svp[c].trans # NoTicket => Contains(m_tickets[c]["TRANSACTION"], svp[c].trans)
  /\ \A t \in Tickets : t \in svp[c].held <=> t \in Held(c) /\ ~Since(c, t)
  /\ \A r, q \in want[c] : r.dur = "EXPLICIT" => q = r
  /\ pc[c] \in Pending /\ dur[mine[c]] = "EXPLICIT" => want[c] = {}

GrantedCovered == \A l \in Locks : Covers(gsum[l], granted[l], type)

ControlRight == \A c \in Contexts : Control(c)
PendingsRight == \A c \in Contexts : pc[c] \in Pending => PendingRight(c)
TodosRight == \A c \in Contexts : TodoRight(c)
UpgradesRight ==
  \A c \in Contexts : upgrade[c] # NoUpgrade => UpgradeRight(c)
SavepointsRight ==
  \A c \in Contexts : pc[c] \in {"acquire"} \cup Pending => SavepointRight(c)

IInv ==
  /\ TypeInv /\ ControlRight /\ WriterRight /\ VictimIsWaiting
  /\ ListsRight /\ TicketsRight /\ GrantedRight /\ WaitingRight
  /\ PendingsRight /\ TodosRight /\ UpgradesRight /\ SavepointsRight
  /\ GrantedCovered /\ GrantedCompatible

(* What the assumption on the constants says of special values.            *)
LEMMA Basics ==
  /\ NoTicket \notin Tickets /\ NoContext \notin Contexts /\ NoLock \notin Locks
  /\ "free" \notin Types
  /\ \A t \in Tickets : Ctx(t) \in Contexts
  /\ AllDurations = {"STATEMENT", "TRANSACTION", "EXPLICIT"}
<1>1. \A t \in Tickets : Ctx(t) \in Contexts
  BY DEF Tickets, Ctx
<1>2. "free" \notin Types
  BY DEF Types
<1> QED BY <1>1, <1>2, MdlAssumption DEF AllDurations

(* What a context does while it waits touches neither lists nor tickets.   *)
WaitStep(c) ==
  /\ pc[c] \in Pending /\ pc'[c] \in Pending
  /\ pc' = [pc EXCEPT ![c] = pc'[c]]
  /\ UNCHANGED <<lockVars, ticketVars, m_tickets, want, svp, mine, upgrade,
                 todo, sched>>

(* So it preserves what the invariant says of them.                        *)
LEMMA WaitFrame ==
  ASSUME IInv, NEW c \in Contexts, WaitStep(c)
  PROVE  /\ WriterRight' /\ ListsRight' /\ TicketsRight' /\ GrantedRight'
         /\ WaitingRight' /\ TodosRight' /\ UpgradesRight' /\ SavepointsRight'
         /\ GrantedCovered' /\ GrantedCompatible'
<1> USE Basics DEF IInv, WaitStep, lockVars, ticketVars
<1>0. \A x \in Contexts : pc'[x] = IF x = c THEN pc'[c] ELSE pc[x]
  BY DEF TypeInv
<1>0a. \A t \in Tickets : Listed(t)' = Listed(t) /\ IsPending(t)' = IsPending(t)
  BY <1>0 DEF Listed, IsPending
<1>1. WriterRight'
  BY <1>0 DEF WriterRight, TypeInv, Pending
<1>2. ListsRight'
  BY DEF ListsRight
<1>3. TicketsRight'
  BY <1>0a DEF TicketsRight
<1>4. GrantedRight'
  BY DEF GrantedRight
<1>5. WaitingRight'
  BY <1>0a DEF WaitingRight
<1>6. TodosRight'
  BY <1>0a DEF TodosRight, TodoRight
<1>7. UpgradesRight'
  BY <1>0, <1>0a DEF UpgradesRight, UpgradeRight, Pending
<1>8. SavepointsRight'
  <2> SUFFICES ASSUME NEW x \in Contexts, (pc[x] \in {"acquire"} \cup Pending)'
               PROVE  SavepointRight(x)'
    BY DEF SavepointsRight
  <2>1. SavepointRight(x)
    BY <1>0 DEF SavepointsRight
  <2> QED BY <2>1, <1>0 DEF SavepointRight, Since, Held, Pending
<1>9. GrantedCovered'
  BY DEF GrantedCovered
<1>10. GrantedCompatible'
  BY DEF GrantedCompatible
<1> QED BY <1>1, <1>2, <1>3, <1>4, <1>5, <1>6, <1>7, <1>8, <1>9, <1>10

(* A context announces what it is going to wait for.                       *)
LEMMA WillWaitForStep ==
  ASSUME IInv, NEW c \in Contexts, WillWaitFor(c)
  PROVE  IInv'
<1> USE Basics DEF WillWaitFor
<1>1. WaitStep(c)
  BY DEF IInv, TypeInv, Pending, WaitStep, waitVars
<1>2. TypeInv'
  BY DEF IInv, TypeInv, lockVars, ticketVars, waitVars, Places, Statuses, MaybeTicket, ControlRight, Control
<1>3. ControlRight'
  <2> SUFFICES ASSUME NEW x \in Contexts PROVE Control(x)'
    BY DEF ControlRight
  <2>1. Control(x)
    BY DEF IInv, ControlRight
  <2>2. CASE x = c
    BY <2>1, <2>2 DEF IInv, TypeInv, Control, lockVars, waitVars, Pending
  <2>3. CASE x # c
    BY <2>1, <2>3 DEF IInv, TypeInv, Control, lockVars, waitVars, Pending
  <2> QED BY <2>2, <2>3
<1>4. VictimIsWaiting'
  BY DEF IInv, TypeInv, ControlRight, Control, VictimIsWaiting, waitVars, Unlocked
<1>5. PendingsRight'
  BY DEF IInv, TypeInv, PendingsRight, PendingRight, lockVars, ticketVars, waitVars, Pending, Statuses
<1> QED BY <1>1, <1>2, <1>3, <1>4, <1>5, WaitFrame DEF IInv

(* A search that finds nothing.                                            *)
LEMMA FindNoDeadlockStep ==
  ASSUME IInv, NEW c \in Contexts, FindNoDeadlock(c)
  PROVE  IInv'
<1> USE Basics DEF FindNoDeadlock
<1>1. WaitStep(c)
  BY DEF IInv, TypeInv, Pending, WaitStep, waitVars
<1>2. TypeInv'
  BY DEF IInv, TypeInv, lockVars, ticketVars, waitVars, Places, Statuses, MaybeTicket, ControlRight, Control
<1>3. ControlRight'
  <2> SUFFICES ASSUME NEW x \in Contexts PROVE Control(x)'
    BY DEF ControlRight
  <2>1. Control(x)
    BY DEF IInv, ControlRight
  <2>2. CASE x = c
    BY <2>1, <2>2 DEF IInv, TypeInv, Control, lockVars, waitVars, Pending
  <2>3. CASE x # c
    BY <2>1, <2>3 DEF IInv, TypeInv, Control, lockVars, waitVars, Pending
  <2> QED BY <2>2, <2>3
<1>4. VictimIsWaiting'
  BY DEF IInv, TypeInv, ControlRight, Control, VictimIsWaiting, waitVars, Unlocked
<1>5. PendingsRight'
  BY DEF IInv, TypeInv, PendingsRight, PendingRight, lockVars, ticketVars, waitVars, Pending, Statuses
<1> QED BY <1>1, <1>2, <1>3, <1>4, <1>5, WaitFrame DEF IInv

(* A search that finds a victim, which has entered its wait.               *)
LEMMA FindVictimStep ==
  ASSUME IInv, NEW c \in Contexts, NEW v \in Contexts, FindVictim(c, v)
  PROVE  IInv'
<1> USE Basics DEF FindVictim
<1>0. waiting_for[v] # NoTicket
  <2>1. PICK w \in Loops(c) \cup DeadEnds(c) : IsVictim(v, w)
    OBVIOUS
  <2>2. IsWalk(c, w)
    BY DEF Loops, DeadEnds, Walks
  <2> QED BY <2>1, <2>2 DEF IsWalk, IsVictim, Entered
<1>0a. pc[v] \in {"search", "victim", "wait", "done"}
  BY <1>0 DEF IInv, ControlRight, Control
<1>1. WaitStep(c)
  BY DEF IInv, TypeInv, Pending, WaitStep, waitVars
<1>2. TypeInv'
  BY <1>0 DEF IInv, TypeInv, lockVars, ticketVars, waitVars, Places, Statuses, MaybeTicket, ControlRight, Control
<1>3. ControlRight'
  <2> SUFFICES ASSUME NEW x \in Contexts PROVE Control(x)'
    BY DEF ControlRight
  <2>1. Control(x)
    BY DEF IInv, ControlRight
  <2>2. CASE x = c
    BY <2>1, <2>2, <1>0 DEF IInv, TypeInv, Control, lockVars, waitVars, Pending
  <2>3. CASE x # c
    BY <2>1, <2>3, <1>0 DEF IInv, TypeInv, Control, lockVars, waitVars, Pending
  <2> QED BY <2>2, <2>3
<1>4. VictimIsWaiting'
  <2>1. /\ victim \in [Contexts -> Contexts \cup {NoContext}]
        /\ pc \in [Contexts -> Places]
    BY DEF IInv, TypeInv
  <2>2. \A x \in Contexts : /\ victim'[x] = IF x = c THEN v ELSE victim[x]
                           /\ pc'[x] = IF x = c THEN "victim" ELSE pc[x]
    BY <2>1
  <2> SUFFICES ASSUME NEW x \in Contexts, victim'[x] # NoContext
               PROVE  /\ waiting_for'[victim'[x]] # NoTicket
                      /\ pc'[victim'[x]] \in {"search", "victim", "wait", "done"}
    BY DEF VictimIsWaiting
  <2>3. CASE x = c
    BY <2>2, <2>3, <1>0, <1>0a
  <2>4. CASE x # c
    BY <2>1, <2>2, <2>4 DEF IInv, VictimIsWaiting
  <2> QED BY <2>3, <2>4
<1>5. PendingsRight'
  <2> SUFFICES ASSUME NEW x \in Contexts, pc'[x] \in Pending
               PROVE  PendingRight(x)'
    BY DEF PendingsRight
  <2>1. /\ pc[x] \in Pending
        /\ pc'[x] = pc[x] \/ pc'[x] = "victim"
    BY DEF IInv, TypeInv, Pending
  <2>2. PendingRight(x)
    BY <2>1 DEF IInv, PendingsRight
  <2>3. UNCHANGED <<granted, waiting, type, lockof, status, result, m_tickets,
                    mine>>
    BY DEF lockVars, ticketVars
  <2> HIDE DEF FindVictim
  <2> QED BY <2>1, <2>2, <2>3 DEF PendingRight
<1> QED BY <1>1, <1>2, <1>3, <1>4, <1>5, WaitFrame DEF IInv

(* The victim is told.                                                     *)
LEMMA SetVictimStep ==
  ASSUME IInv, NEW c \in Contexts, SetVictim(c)
  PROVE  IInv'
<1> USE Basics DEF SetVictim
<1>0. victim[c] \in Contexts /\ pc[victim[c]] \in Pending
  BY DEF IInv, TypeInv, ControlRight, Control, VictimIsWaiting, Pending
<1>1. WaitStep(c)
  BY DEF IInv, TypeInv, Pending, WaitStep, waitVars
<1>2. TypeInv'
  <2>1. /\ status' \in [Contexts -> Statuses]
        /\ victim' \in [Contexts -> Contexts \cup {NoContext}]
        /\ pc' \in [Contexts -> Places]
    BY <1>0 DEF IInv, TypeInv, Statuses, Places
  <2>2. overweight' \in [Contexts -> 0 .. MaxOverweight]
    <3>1. overweight \in [Contexts -> 0 .. MaxOverweight]
      BY DEF IInv, TypeInv
    <3> QED BY <3>1, <1>0, MdlAssumption
  <2> QED BY <2>1, <2>2 DEF IInv, TypeInv, lockVars, ticketVars
<1>3. ControlRight'
  <2> SUFFICES ASSUME NEW x \in Contexts PROVE Control(x)'
    BY DEF ControlRight
  <2>1. Control(x)
    BY DEF IInv, ControlRight
  <2>2. CASE x = c
    BY <2>1, <2>2, <1>0 DEF IInv, TypeInv, Control, lockVars, waitVars, Pending
  <2>3. CASE x # c
    BY <2>1, <2>3, <1>0 DEF IInv, TypeInv, Control, lockVars, waitVars, Pending
  <2> QED BY <2>2, <2>3
<1>4. VictimIsWaiting'
  BY <1>0 DEF IInv, TypeInv, ControlRight, Control, VictimIsWaiting, waitVars, Unlocked
<1>5. PendingsRight'
  <2> SUFFICES ASSUME NEW x \in Contexts, (pc[x] \in Pending)'
               PROVE  PendingRight(x)'
    BY DEF PendingsRight
  <2>1. pc[x] \in Pending /\ PendingRight(x)
    BY DEF IInv, TypeInv, PendingsRight, Pending
  <2>2. status'[x] = IF x = victim[c] /\ status[x] = "EMPTY" THEN "VICTIM"
                                                            ELSE status[x]
    <3>1. status \in [Contexts -> Statuses]
      BY DEF IInv, TypeInv
    <3> QED BY <3>1, <1>0
  <2>3. pc'[x] = pc[x] \/ (pc'[x] # "done" /\ pc'[x] # "withdraw")
    BY DEF IInv, TypeInv
  <2> QED BY <2>1, <2>2, <2>3 DEF PendingRight, lockVars, ticketVars
<1> QED BY <1>1, <1>2, <1>3, <1>4, <1>5, WaitFrame DEF IInv

(* A wait ends with what is in the slot.                                   *)
LEMMA WaitSignalledStep ==
  ASSUME IInv, NEW c \in Contexts, WaitSignalled(c)
  PROVE  IInv'
<1> USE Basics DEF WaitSignalled
<1>1. WaitStep(c)
  BY DEF IInv, TypeInv, Pending, WaitStep, waitVars
<1>2. TypeInv'
  <2>1. /\ result' \in [Contexts -> Statuses]
        /\ pc' \in [Contexts -> Places]
    BY DEF IInv, TypeInv, Places
  <2> QED BY <2>1 DEF IInv, TypeInv, lockVars, ticketVars
<1>3. ControlRight'
  <2> SUFFICES ASSUME NEW x \in Contexts PROVE Control(x)'
    BY DEF ControlRight
  <2>1. Control(x)
    BY DEF IInv, ControlRight
  <2>2. CASE x = c
    BY <2>1, <2>2 DEF IInv, TypeInv, Control, lockVars, waitVars, Pending
  <2>3. CASE x # c
    BY <2>1, <2>3 DEF IInv, TypeInv, Control, lockVars, waitVars, Pending
  <2> QED BY <2>2, <2>3
<1>4. VictimIsWaiting'
  BY DEF IInv, TypeInv, ControlRight, Control, VictimIsWaiting, waitVars, Unlocked
<1>5. PendingsRight'
  BY DEF IInv, TypeInv, PendingsRight, PendingRight, lockVars, ticketVars, waitVars, Pending, Statuses
<1> QED BY <1>1, <1>2, <1>3, <1>4, <1>5, WaitFrame DEF IInv

(* A wait ends by itself.                                                  *)
LEMMA WaitAbortedStep ==
  ASSUME IInv, NEW c \in Contexts, NEW a \in Aborts, WaitAborted(c, a)
  PROVE  IInv'
<1> USE Basics, MdlAssumption DEF WaitAborted
<1>1. WaitStep(c)
  BY DEF IInv, TypeInv, Pending, WaitStep, waitVars
<1>2. TypeInv'
  <2>1. a \in Statuses
    BY DEF Statuses
  <2> QED BY <2>1 DEF IInv, TypeInv, lockVars, ticketVars, Places
<1>3. ControlRight'
  <2> SUFFICES ASSUME NEW x \in Contexts PROVE Control(x)'
    BY DEF ControlRight
  <2>1. Control(x)
    BY DEF IInv, ControlRight
  <2>2. CASE x = c
    BY <2>1, <2>2 DEF IInv, TypeInv, Control, lockVars, waitVars, Pending
  <2>3. CASE x # c
    BY <2>1, <2>3 DEF IInv, TypeInv, Control, lockVars, waitVars, Pending
  <2> QED BY <2>2, <2>3
<1>4. VictimIsWaiting'
  BY DEF IInv, TypeInv, ControlRight, Control, VictimIsWaiting, waitVars, Unlocked
<1>5. PendingsRight'
  BY DEF IInv, TypeInv, PendingsRight, PendingRight, lockVars, ticketVars, waitVars, Pending, Statuses
<1> QED BY <1>1, <1>2, <1>3, <1>4, <1>5, WaitFrame DEF IInv

(* A wait ends because the client is gone.                                 *)
LEMMA WaitDisconnectedStep ==
  ASSUME IInv, NEW c \in Contexts, WaitDisconnected(c)
  PROVE  IInv'
<1> USE Basics DEF WaitDisconnected
<1>1. WaitStep(c)
  BY DEF IInv, TypeInv, Pending, WaitStep, waitVars
<1>2. TypeInv'
  <2>1. /\ result' \in [Contexts -> Statuses]
        /\ pc' \in [Contexts -> Places]
        /\ gone' \subseteq Contexts
    BY DEF IInv, TypeInv, Statuses, Places
  <2> QED BY <2>1 DEF IInv, TypeInv, lockVars, ticketVars
<1>3. ControlRight'
  <2> SUFFICES ASSUME NEW x \in Contexts PROVE Control(x)'
    BY DEF ControlRight
  <2>1. Control(x)
    BY DEF IInv, ControlRight
  <2>2. CASE x = c
    BY <2>1, <2>2 DEF IInv, TypeInv, Control, lockVars, waitVars, Pending
  <2>3. CASE x # c
    BY <2>1, <2>3 DEF IInv, TypeInv, Control, lockVars, waitVars, Pending
  <2> QED BY <2>2, <2>3
<1>4. VictimIsWaiting'
  BY DEF IInv, TypeInv, ControlRight, Control, VictimIsWaiting, waitVars, Unlocked
<1>5. PendingsRight'
  BY DEF IInv, TypeInv, PendingsRight, PendingRight, lockVars, ticketVars, waitVars, Pending, Statuses
<1> QED BY <1>1, <1>2, <1>3, <1>4, <1>5, WaitFrame DEF IInv

(* A failed wait is no longer visible to searches.                         *)
LEMMA DoneFailedStep ==
  ASSUME IInv, NEW c \in Contexts, DoneFailed(c)
  PROVE  IInv'
<1> USE Basics DEF DoneFailed
<1>1. WaitStep(c)
  BY DEF IInv, TypeInv, Pending, WaitStep, waitVars
<1>2. TypeInv'
  BY DEF IInv, TypeInv, lockVars, ticketVars, waitVars, Places, Statuses, MaybeTicket, ControlRight, Control
<1>3. ControlRight'
  <2> SUFFICES ASSUME NEW x \in Contexts PROVE Control(x)'
    BY DEF ControlRight
  <2>1. Control(x)
    BY DEF IInv, ControlRight
  <2>2. CASE x = c
    BY <2>1, <2>2 DEF IInv, TypeInv, Control, lockVars, waitVars, Pending
  <2>3. CASE x # c
    BY <2>1, <2>3 DEF IInv, TypeInv, Control, lockVars, waitVars, Pending
  <2> QED BY <2>2, <2>3
<1>4. VictimIsWaiting'
  BY DEF IInv, TypeInv, ControlRight, Control, VictimIsWaiting, waitVars, Unlocked
<1>5. PendingsRight'
  BY DEF IInv, TypeInv, PendingsRight, PendingRight, lockVars, ticketVars, waitVars, Pending, Statuses
<1> QED BY <1>1, <1>2, <1>3, <1>4, <1>5, WaitFrame DEF IInv

(* A step of context c inside or at the start of a call that touches no    *)
(* lock and no ticket.                                                     *)
CallStep(c) ==
  /\ pc[c] \in {"idle", "acquire"}
  /\ pc'[c] \in {"idle", "acquire", "release", "merge"}
  /\ \A x \in Contexts \ {c} :
       /\ pc'[x] = pc[x] /\ want'[x] = want[x] /\ svp'[x] = svp[x]
       /\ mine'[x] = mine[x] /\ upgrade'[x] = upgrade[x] /\ todo'[x] = todo[x]
  /\ UNCHANGED <<lockVars, ticketVars, waitVars, m_tickets, sched>>

(* It preserves the invariant if it does so for c.                         *)
LEMMA CallFrame ==
  ASSUME IInv, NEW c \in Contexts, CallStep(c),
         TypeInv', Control(c)', TodoRight(c)',
         (upgrade[c] # NoUpgrade => UpgradeRight(c))',
         (pc[c] = "acquire" => SavepointRight(c))'
  PROVE  IInv'
<1> USE Basics DEF IInv, CallStep, lockVars, ticketVars, waitVars
<1>0. \A t \in Tickets : Listed(t)' = Listed(t) /\ IsPending(t)' = IsPending(t)
  BY DEF Listed, IsPending, Pending
<1>1. WriterRight'
  BY DEF WriterRight, TypeInv
<1>2. VictimIsWaiting'
  <2> SUFFICES ASSUME NEW x \in Contexts, victim[x] # NoContext
               PROVE  /\ waiting_for'[victim[x]] # NoTicket
                      /\ pc'[victim[x]] \in {"search", "victim", "wait", "done"}
    BY DEF VictimIsWaiting
  <2>1. victim[x] \in Contexts
    BY DEF TypeInv
  <2> QED BY <2>1 DEF VictimIsWaiting
<1>3. ListsRight'
  BY DEF ListsRight
<1>4. TicketsRight'
  BY <1>0 DEF TicketsRight
<1>5. GrantedRight'
  BY DEF GrantedRight
<1>6. WaitingRight'
  BY <1>0 DEF WaitingRight
<1>7. PendingsRight'
  BY DEF PendingsRight, PendingRight, Pending
<1>8. GrantedCovered' /\ GrantedCompatible'
  BY DEF GrantedCovered, GrantedCompatible
<1>9. ControlRight'
  <2> SUFFICES ASSUME NEW x \in Contexts, x # c PROVE Control(x)'
    BY DEF ControlRight
  <2> QED BY DEF ControlRight, Control
<1>10. TodosRight'
  BY <1>0 DEF TodosRight, TodoRight
<1>11. UpgradesRight'
  <2> SUFFICES ASSUME NEW x \in Contexts, x # c, upgrade[x] # NoUpgrade
               PROVE  UpgradeRight(x)'
    BY DEF UpgradesRight
  <2>1. UpgradeRight(x)
    BY DEF UpgradesRight
  <2> QED BY <2>1, <1>0 DEF UpgradeRight
<1>12. SavepointsRight'
  <2> SUFFICES ASSUME NEW x \in Contexts, x # c, pc[x] \in {"acquire"} \cup Pending
               PROVE  SavepointRight(x)'
    BY DEF SavepointsRight, Pending
  <2>1. SavepointRight(x)
    BY DEF SavepointsRight
  <2> QED BY <2>1 DEF SavepointRight, Since, Held
<1> QED BY <1>1, <1>2, <1>3, <1>4, <1>5, <1>6, <1>7, <1>8, <1>9, <1>10, <1>11,
           <1>12

(* A held ticket exists, and is granted.                                   *)
LEMMA HeldFacts ==
  ASSUME IInv, NEW c \in Contexts, NEW t \in Held(c)
  PROVE  /\ t \in Tickets /\ Ctx(t) = c /\ Listed(t)
         /\ type[t] \in Types /\ lockof[t] \in Locks
         /\ t \in granted[lockof[t]]
<1>1. t \in Tickets
  BY DEF Held
<1>2. PICK d \in AllDurations : Contains(m_tickets[c][d], t)
  BY DEF Held
<1>3. /\ Ctx(t) = c /\ dur[t] = d
      /\ type[t] # "free" /\ t \in granted[lockof[t]]
  BY <1>1, <1>2 DEF IInv, ListsRight
<1>4. Listed(t)
  BY <1>2, <1>3 DEF Listed
<1>5. lockof[t] \in Locks
  BY <1>1, <1>3 DEF IInv, TicketsRight
<1>6. type[t] \in Types
  BY <1>1, <1>3 DEF IInv, TypeInv
<1> QED BY <1>1, <1>3, <1>4, <1>5, <1>6

(* acquire_locks() or acquire_lock() is called.                            *)
LEMMA StartAcquireStep ==
  ASSUME IInv, NEW c \in Contexts, NEW rs \in Calls[c], StartAcquire(c, rs)
  PROVE  IInv'
<1> USE Basics DEF StartAcquire
<1>1. rs \in SUBSET Request
  BY MdlAssumption
<1>2. /\ m_tickets[c]["STATEMENT"] \in Seq(Tickets)
      /\ IsInjective(m_tickets[c]["STATEMENT"])
      /\ m_tickets[c]["TRANSACTION"] \in Seq(Tickets)
      /\ IsInjective(m_tickets[c]["TRANSACTION"])
  BY DEF IInv, TypeInv, ListsRight
<1>3. svp'[c] = Savepoint(c)
  BY DEF IInv, TypeInv
<1>4. TypeInv'
  <2>1. Savepoint(c) \in [stmt : MaybeTicket, trans : MaybeTicket,
                          held : SUBSET Tickets]
    BY <1>2, NewestInList DEF Savepoint, MaybeTicket, Held
  <2>2. /\ want' \in [Contexts -> SUBSET Request]
        /\ pc' \in [Contexts -> Places]
    BY <1>1 DEF IInv, TypeInv, Places
  <2>3. svp' \in [Contexts -> [stmt : MaybeTicket, trans : MaybeTicket,
                               held : SUBSET Tickets]]
    BY <2>1 DEF IInv, TypeInv
  <2> QED BY <2>2, <2>3 DEF IInv, TypeInv, lockVars, ticketVars, waitVars
<1>5. CallStep(c)
  BY DEF IInv, TypeInv, CallStep
<1>6. Control(c)'
  <2>1. Control(c)
    BY DEF IInv, ControlRight
  <2>2. pc[c] = "idle" /\ pc'[c] = "acquire"
    BY DEF IInv, TypeInv
  <2> QED BY <2>1, <2>2 DEF Control, lockVars, waitVars, Pending
<1>7. TodoRight(c)'
  BY DEF IInv, TodosRight, TodoRight, Listed, ticketVars
<1>8. (upgrade[c] # NoUpgrade => UpgradeRight(c))'
  BY DEF IInv, ControlRight, Control, Pending
<1>9. SavepointRight(c)'
  <2>1. \A t \in Tickets : ~Since(c, t)'
    BY <1>2, <1>3, BeforeNewest DEF Since, Savepoint
  <2>2. \A t \in Tickets : (t \in svp[c].held <=> t \in Held(c))'
    BY <1>3 DEF Savepoint, Held
  <2>3. /\ (svp[c].stmt # NoTicket => Contains(m_tickets[c]["STATEMENT"], svp[c].stmt))'
        /\ (svp[c].trans # NoTicket => Contains(m_tickets[c]["TRANSACTION"], svp[c].trans))'
    BY <1>2, <1>3, NewestInList DEF Savepoint
  <2>4. (\A r, q \in want[c] : r.dur = "EXPLICIT" => q = r)'
    BY MdlAssumption DEF IInv, TypeInv
  <2>5. (pc[c] \notin Pending)'
    BY DEF IInv, TypeInv, Pending
  <2> QED BY <2>1, <2>2, <2>3, <2>4, <2>5 DEF SavepointRight
<1> QED BY <1>4, <1>5, <1>6, <1>7, <1>8, <1>9, CallFrame

(* upgrade_shared_lock() is called.                                        *)
LEMMA StartUpgradeStep ==
  ASSUME IInv, NEW c \in Contexts, NEW t \in Tickets, NEW y \in UpgradeTo,
         StartUpgrade(c, t, y)
  PROVE  IInv'
<1> USE Basics DEF StartUpgrade
<1> DEFINE r == [lock |-> lockof[t], type |-> y, dur |-> "TRANSACTION"]
<1>1. /\ y \in Types /\ Ctx(t) = c /\ Listed(t) /\ lockof[t] \in Locks
  BY HeldFacts, MdlAssumption
<1>1a. r \in Request
  BY <1>1, MdlAssumption DEF Request
<1>2. /\ m_tickets[c]["STATEMENT"] \in Seq(Tickets)
      /\ IsInjective(m_tickets[c]["STATEMENT"])
      /\ m_tickets[c]["TRANSACTION"] \in Seq(Tickets)
      /\ IsInjective(m_tickets[c]["TRANSACTION"])
  BY DEF IInv, TypeInv, ListsRight
<1>3. svp'[c] = Savepoint(c)
  BY DEF IInv, TypeInv
<1>4. TypeInv'
  <2>1. Savepoint(c) \in [stmt : MaybeTicket, trans : MaybeTicket,
                          held : SUBSET Tickets]
    BY <1>2, NewestInList DEF Savepoint, MaybeTicket, Held
  <2>2. /\ want' \in [Contexts -> SUBSET Request]
        /\ pc' \in [Contexts -> Places]
    BY <1>1a DEF IInv, TypeInv, Places
  <2>3. svp' \in [Contexts -> [stmt : MaybeTicket, trans : MaybeTicket,
                               held : SUBSET Tickets]]
    BY <2>1 DEF IInv, TypeInv
  <2>4. upgrade' \in [Contexts -> [ticket : MaybeTicket, type : Types \cup {"free"}]]
    BY <1>1 DEF IInv, TypeInv, MaybeTicket
  <2> QED BY <2>2, <2>3, <2>4 DEF IInv, TypeInv, lockVars, ticketVars, waitVars
<1>5. CallStep(c)
  BY DEF IInv, TypeInv, CallStep
<1>6. Control(c)'
  <2>1. Control(c)
    BY DEF IInv, ControlRight
  <2>2. pc[c] = "idle" /\ pc'[c] = "acquire"
    BY DEF IInv, TypeInv
  <2> QED BY <2>1, <2>2 DEF Control, lockVars, waitVars, Pending
<1>7. TodoRight(c)'
  BY DEF IInv, TodosRight, TodoRight, Listed, ticketVars
<1>8. UpgradeRight(c)'
  <2>1. upgrade'[c].ticket = t /\ upgrade'[c].type = y /\ want'[c] = {r}
        /\ pc'[c] = "acquire"
    BY DEF IInv, TypeInv
  <2> QED BY <2>1, <1>1 DEF UpgradeRight, Listed, ticketVars, Pending
<1>9. SavepointRight(c)'
  <2>1. \A u \in Tickets : ~Since(c, u)'
    BY <1>2, <1>3, BeforeNewest DEF Since, Savepoint
  <2>2. \A u \in Tickets : (u \in svp[c].held <=> u \in Held(c))'
    BY <1>3 DEF Savepoint, Held
  <2>3. /\ (svp[c].stmt # NoTicket => Contains(m_tickets[c]["STATEMENT"], svp[c].stmt))'
        /\ (svp[c].trans # NoTicket => Contains(m_tickets[c]["TRANSACTION"], svp[c].trans))'
    BY <1>2, <1>3, NewestInList DEF Savepoint
  <2>4. (\A p, q \in want[c] : p.dur = "EXPLICIT" => q = p)'
    BY DEF IInv, TypeInv
  <2>5. (pc[c] \notin Pending)'
    BY DEF IInv, TypeInv, Pending
  <2> QED BY <2>1, <2>2, <2>3, <2>4, <2>5 DEF SavepointRight
<1> QED BY <1>4, <1>5, <1>6, <1>7, <1>8, <1>9, CallFrame

(* A request is satisfied by a ticket of the context.                      *)
LEMMA AcquireReuseStep ==
  ASSUME IInv, NEW c \in Contexts, NEW r \in want[c], NEW t \in Tickets,
         AcquireReuse(c, r, t)
  PROVE  IInv'
<1> USE Basics DEF AcquireReuse, Got
<1>1. /\ Contains(m_tickets[c][r.dur], t) /\ lockof[t] = r.lock
      /\ StrongerOrEqual(Strategy[r.lock], type[t], r.type)
  BY DEF Found
<1>2. TypeInv'
  <2>1. /\ want' \in [Contexts -> SUBSET Request]
        /\ pc' \in [Contexts -> Places]
        /\ mine' \in [Contexts -> MaybeTicket]
    BY DEF IInv, TypeInv, Places, MaybeTicket
  <2>2. svp' \in [Contexts -> [stmt : MaybeTicket, trans : MaybeTicket,
                               held : SUBSET Tickets]]
    <3>1. svp \in [Contexts -> [stmt : MaybeTicket, trans : MaybeTicket,
                                held : SUBSET Tickets]]
      BY DEF IInv, TypeInv
    <3> QED BY <3>1 DEF NoSavepoint, MaybeTicket
  <2> QED BY <2>1, <2>2 DEF IInv, TypeInv, lockVars, ticketVars, waitVars
<1>3. CallStep(c)
  BY DEF IInv, TypeInv, CallStep
<1>4. Control(c)'
  <2>1. Control(c)
    BY DEF IInv, ControlRight
  <2>2. /\ pc[c] = "acquire"
        /\ pc'[c] = IF upgrade[c] # NoUpgrade THEN "merge"
                    ELSE IF want[c] \ {r} = {} THEN "idle" ELSE "acquire"
        /\ mine'[c] = IF upgrade[c] = NoUpgrade THEN NoTicket ELSE t
    BY DEF IInv, TypeInv
  <2> QED BY <2>1, <2>2 DEF Control, lockVars, waitVars, Pending
<1>5. TodoRight(c)'
  BY DEF IInv, TodosRight, TodoRight, Listed, ticketVars
<1>6. (upgrade[c] # NoUpgrade => UpgradeRight(c))'
  <2> SUFFICES ASSUME upgrade[c] # NoUpgrade PROVE UpgradeRight(c)'
    OBVIOUS
  <2>1. UpgradeRight(c)
    BY DEF IInv, UpgradesRight
  <2>2. mine'[c] = t /\ pc'[c] = "merge"
    BY DEF IInv, TypeInv
  <2>3. r = [lock |-> lockof[upgrade[c].ticket], type |-> upgrade[c].type,
             dur |-> "TRANSACTION"]
    BY <2>1 DEF UpgradeRight
  <2> QED BY <2>1, <2>2, <2>3, <1>1 DEF UpgradeRight, Listed, ticketVars, Pending
<1>7. (pc[c] = "acquire" => SavepointRight(c))'
  <2>1. SavepointRight(c)
    BY DEF IInv, SavepointsRight
  <2>2. ASSUME pc'[c] = "acquire" PROVE svp'[c] = svp[c]
    <3>1. svp \in [Contexts -> [stmt : MaybeTicket, trans : MaybeTicket,
                                held : SUBSET Tickets]]
          /\ pc \in [Contexts -> Places]
      BY DEF IInv, TypeInv
    <3> QED BY <2>2, <3>1
  <2>3. want'[c] \subseteq want[c]
    BY DEF IInv, TypeInv
  <2> QED BY <2>1, <2>2, <2>3 DEF SavepointRight, Since, Held, Pending
<1> QED BY <1>2, <1>3, <1>4, <1>5, <1>6, <1>7, CallFrame

(* What a failed call goes on to release: exactly the tickets taken since  *)
(* its savepoint, each once.                                               *)
LEMMA FailReleases ==
  ASSUME IInv, NEW c \in Contexts, Fail(c)
  PROVE  /\ todo'[c] \in Seq(Tickets) /\ IsInjective(todo'[c])
         /\ \A t : Contains(todo'[c], t) <=> Since(c, t)
         /\ \A t : Contains(todo'[c], t) =>
              t \in Tickets /\ Ctx(t) = c /\ Listed(t)
<1> USE Basics
<1> DEFINE a == StoredBefore(m_tickets[c]["STATEMENT"], svp[c].stmt)
           b == StoredBefore(m_tickets[c]["TRANSACTION"], svp[c].trans)
<1>1. todo'[c] = a \o b
  BY DEF Fail, IInv, TypeInv
<1>2. /\ m_tickets[c]["STATEMENT"] \in Seq(Tickets)
      /\ IsInjective(m_tickets[c]["STATEMENT"])
      /\ m_tickets[c]["TRANSACTION"] \in Seq(Tickets)
      /\ IsInjective(m_tickets[c]["TRANSACTION"])
  BY DEF IInv, TypeInv, ListsRight
<1>3. a \in Seq(Tickets) /\ IsInjective(a)
  BY <1>2, BeforeList
<1>4. b \in Seq(Tickets) /\ IsInjective(b)
  BY <1>2, BeforeList
<1>5. \A t : Contains(a, t) => Contains(m_tickets[c]["STATEMENT"], t)
  BY <1>2, BeforeInList
<1>6. \A t : Contains(b, t) => Contains(m_tickets[c]["TRANSACTION"], t)
  BY <1>2, BeforeInList
<1>7. \A t : Contains(a, t) => t \in Tickets /\ Ctx(t) = c /\ dur[t] = "STATEMENT"
  <2> SUFFICES ASSUME NEW t, Contains(a, t)
               PROVE  t \in Tickets /\ Ctx(t) = c /\ dur[t] = "STATEMENT"
    OBVIOUS
  <2>1. t \in Tickets
    BY <1>3, ElementOfList
  <2> QED BY <2>1, <1>5 DEF IInv, ListsRight
<1>8. \A t : Contains(b, t) => t \in Tickets /\ Ctx(t) = c /\ dur[t] = "TRANSACTION"
  <2> SUFFICES ASSUME NEW t, Contains(b, t)
               PROVE  t \in Tickets /\ Ctx(t) = c /\ dur[t] = "TRANSACTION"
    OBVIOUS
  <2>1. t \in Tickets
    BY <1>4, ElementOfList
  <2> QED BY <2>1, <1>6 DEF IInv, ListsRight
<1>9. \A t : Since(c, t) <=> Contains(a, t) \/ Contains(b, t)
  BY DEF Since
<1> HIDE DEF a, b
<1>10. /\ a \o b \in Seq(Tickets)
       /\ \A t : Contains(a \o b, t) <=> Contains(a, t) \/ Contains(b, t)
  BY <1>3, <1>4, ConcatList
<1>11. IsInjective(a \o b)
  <2>1. \A t : ~(Contains(a, t) /\ Contains(b, t))
    BY <1>7, <1>8
  <2> QED BY <2>1, <1>3, <1>4, ConcatList
<1> QED BY <1>1, <1>5, <1>6, <1>7, <1>8, <1>9, <1>10, <1>11 DEF Listed

(* A request that may not wait fails.                                      *)
LEMMA AcquireNoWaitStep ==
  ASSUME IInv, NEW c \in Contexts, NEW r \in want[c], AcquireNoWait(c, r)
  PROVE  IInv'
<1> USE Basics DEF AcquireNoWait
<1>1. /\ todo'[c] \in Seq(Tickets) /\ IsInjective(todo'[c])
      /\ \A t : Contains(todo'[c], t) =>
           t \in Tickets /\ Ctx(t) = c /\ Listed(t)
  BY FailReleases
<1>2. /\ pc'[c] = Resting(todo'[c]) /\ mine'[c] = NoTicket
      /\ upgrade'[c] = NoUpgrade
  BY DEF IInv, TypeInv, Fail
<1>3. TypeInv'
  <2>1. todo' \in [Contexts -> Seq(Tickets)]
    BY <1>1 DEF IInv, TypeInv, Fail
  <2>2. /\ want' \in [Contexts -> SUBSET Request]
        /\ pc' \in [Contexts -> Places]
        /\ mine' \in [Contexts -> MaybeTicket]
    BY DEF IInv, TypeInv, Places, MaybeTicket, Fail, Resting
  <2>3. svp' \in [Contexts -> [stmt : MaybeTicket, trans : MaybeTicket,
                               held : SUBSET Tickets]]
    BY DEF IInv, TypeInv, Fail, NoSavepoint, MaybeTicket
  <2>4. upgrade' \in [Contexts -> [ticket : MaybeTicket, type : Types \cup {"free"}]]
    BY DEF IInv, TypeInv, Fail, NoUpgrade, MaybeTicket
  <2> QED BY <2>1, <2>2, <2>3, <2>4
       DEF IInv, TypeInv, lockVars, ticketVars, waitVars
<1>4. CallStep(c)
  BY <1>2 DEF IInv, TypeInv, CallStep, Fail, Resting
<1>5. Control(c)'
  <2>1. Control(c)
    BY DEF IInv, ControlRight
  <2> QED BY <2>1, <1>2 DEF Control, lockVars, waitVars, Resting
<1>6. TodoRight(c)'
  BY <1>1 DEF TodoRight, Listed, ticketVars
<1> QED BY <1>2, <1>3, <1>4, <1>5, <1>6, CallFrame DEF Resting

(* A call that releases tickets of c, each once.                           *)
LEMMA StartReleaseStep ==
  ASSUME IInv, NEW c \in Contexts, NEW s \in Seq(Tickets), IsInjective(s),
         \A t \in Tickets : Contains(s, t) => Ctx(t) = c /\ Listed(t),
         StartRelease(c, s)
  PROVE  IInv'
<1> USE Basics DEF StartRelease
<1>1. /\ pc'[c] = "release" /\ todo'[c] = s
  BY DEF IInv, TypeInv
<1>2. TypeInv'
  <2>1. /\ todo' \in [Contexts -> Seq(Tickets)]
        /\ pc' \in [Contexts -> Places]
    BY DEF IInv, TypeInv, Places
  <2> QED BY <2>1 DEF IInv, TypeInv, lockVars, ticketVars, waitVars
<1>3. CallStep(c)
  BY <1>1 DEF IInv, TypeInv, CallStep
<1>4. Control(c)'
  <2>1. Control(c)
    BY DEF IInv, ControlRight
  <2> QED BY <2>1, <1>1 DEF Control, lockVars, waitVars, Pending
<1>5. TodoRight(c)'
  BY <1>1 DEF TodoRight, Listed, ticketVars
<1>6. (upgrade[c] = NoUpgrade)'
  BY DEF IInv, ControlRight, Control, Pending
<1> QED BY <1>1, <1>2, <1>3, <1>4, <1>5, <1>6, CallFrame

(* The lists of c, and that they have no ticket in common.                 *)
LEMMA ListFacts ==
  ASSUME IInv, NEW c \in Contexts, NEW d \in AllDurations
  PROVE  /\ m_tickets[c][d] \in Seq(Tickets) /\ IsInjective(m_tickets[c][d])
         /\ \A t : Contains(m_tickets[c][d], t) =>
              t \in Tickets /\ Ctx(t) = c /\ dur[t] = d /\ Listed(t)
<1>1. m_tickets[c][d] \in Seq(Tickets) /\ IsInjective(m_tickets[c][d])
  BY DEF IInv, TypeInv, ListsRight
<1>2. ASSUME NEW t, Contains(m_tickets[c][d], t)
      PROVE  t \in Tickets /\ Ctx(t) = c /\ dur[t] = d /\ Listed(t)
  <2>1. t \in Tickets
    BY <1>1, <1>2, ElementOfList
  <2> QED BY <2>1, <1>2 DEF IInv, ListsRight, Listed
<1> QED BY <1>1, <1>2

(* Each of the calls that release tickets is such a call.                  *)
LEMMA ReleaseStep ==
  ASSUME IInv, NEW c \in Contexts,
         \/ ReleaseTransactionalLocks(c)
         \/ ReleaseStatementLocks(c)
         \/ ReleaseExplicitLocks(c)
         \/ \E t \in Tickets : ReleaseExplicitLock(c, t)
         \/ \E l \in Locks : ReleaseAllLocksForName(c, l)
         \/ \E t \in Tickets : RollbackToSavepoint(c, t)
  PROVE  IInv'
<1> USE Basics
<1> DEFINE S == m_tickets[c]["STATEMENT"]
           T == m_tickets[c]["TRANSACTION"]
           E == m_tickets[c]["EXPLICIT"]
<1>1. /\ S \in Seq(Tickets) /\ IsInjective(S)
      /\ \A t : Contains(S, t) =>
           t \in Tickets /\ Ctx(t) = c /\ dur[t] = "STATEMENT" /\ Listed(t)
  BY ListFacts
<1>2. /\ T \in Seq(Tickets) /\ IsInjective(T)
      /\ \A t : Contains(T, t) =>
           t \in Tickets /\ Ctx(t) = c /\ dur[t] = "TRANSACTION" /\ Listed(t)
  BY ListFacts
<1>3. /\ E \in Seq(Tickets) /\ IsInjective(E)
      /\ \A t : Contains(E, t) =>
           t \in Tickets /\ Ctx(t) = c /\ dur[t] = "EXPLICIT" /\ Listed(t)
  BY ListFacts
<1>4. ASSUME ReleaseTransactionalLocks(c) PROVE IInv'
  <2>1. StartRelease(c, S \o T)
    BY <1>4 DEF ReleaseTransactionalLocks
  <2> HIDE DEF S, T
  <2>2. /\ S \o T \in Seq(Tickets) /\ IsInjective(S \o T)
        /\ \A t : Contains(S \o T, t) <=> Contains(S, t) \/ Contains(T, t)
    <3>1. \A t : ~(Contains(S, t) /\ Contains(T, t))
      BY <1>1, <1>2
    <3> QED BY <3>1, <1>1, <1>2, ConcatList
  <2>3. \A t \in Tickets : Contains(S \o T, t) => Ctx(t) = c /\ Listed(t)
    BY <2>2, <1>1, <1>2
  <2> QED BY <2>1, <2>2, <2>3, StartReleaseStep
<1>5. ASSUME ReleaseStatementLocks(c) PROVE IInv'
  BY <1>5, <1>1, StartReleaseStep DEF ReleaseStatementLocks
<1>6. ASSUME ReleaseExplicitLocks(c) PROVE IInv'
  BY <1>6, <1>3, StartReleaseStep DEF ReleaseExplicitLocks
<1>7. ASSUME NEW t \in Tickets, ReleaseExplicitLock(c, t) PROVE IInv'
  <2>1. StartRelease(c, <<t>>) /\ Contains(E, t)
    BY <1>7 DEF ReleaseExplicitLock
  <2>2. <<t>> \in Seq(Tickets) /\ IsInjective(<<t>>)
    BY DEF IsInjective
  <2>3. \A u \in Tickets : Contains(<<t>>, u) => u = t
    BY DEF Contains
  <2> QED BY <2>1, <2>2, <2>3, <1>3, StartReleaseStep
<1>8. ASSUME NEW l \in Locks, ReleaseAllLocksForName(c, l) PROVE IInv'
  <2> DEFINE same == {i \in DOMAIN E : lockof[E[i]] = l}
  <2>1. PICK k \in [1 .. Cardinality(same) -> same] :
          /\ \A i, j \in DOMAIN k : i < j => k[i] < k[j]
          /\ StartRelease(c, [i \in DOMAIN k |-> E[k[i]]])
    BY <1>8 DEF ReleaseAllLocksForName
  <2> DEFINE r == [i \in DOMAIN k |-> E[k[i]]]
  <2>2. same \in SUBSET DOMAIN E
    OBVIOUS
  <2> HIDE DEF same, E
  <2>3. /\ r \in Seq(Tickets) /\ IsInjective(r)
        /\ \A u : Contains(r, u) => Contains(E, u)
    <3> DEFINE n == Cardinality(same)
    <3>1. n \in Nat
      <4>1. IsFiniteSet(DOMAIN E)
        BY <1>3, FS_Interval, LenProperties, 1 \in Int
      <4> QED BY <4>1, <2>2, FS_Subset, FS_CardinalityType
    <3> HIDE DEF n
    <3>2. /\ DOMAIN k = 1 .. n
          /\ \A i, j \in 1 .. n : i < j => k[i] < k[j]
          /\ \A i \in 1 .. n : k[i] \in DOMAIN E
      BY <2>1, <2>2 DEF n
    <3>3. \A i \in 1 .. n : E[k[i]] \in Tickets
      BY <3>2, <1>3
    <3>4. r \in [1 .. n -> Tickets] /\ \A i \in 1 .. n : r[i] = E[k[i]]
      BY <3>2, <3>3
    <3>5. E \in Seq(Tickets) /\ IsInjective(E)
      BY <1>3
    <3> HIDE DEF r
    <3>6. r \in Seq(Tickets) /\ DOMAIN r = 1 .. n
      BY <3>1, <3>4, SeqDef
    <3>7. Len(r) = n
      BY <3>1, <3>6, LenProperties
    <3>8. IsInjective(r)
      <4> SUFFICES ASSUME NEW i \in 1 .. n, NEW j \in 1 .. n, r[i] = r[j]
                   PROVE  i = j
        BY <3>6 DEF IsInjective
      <4>1. k[i] = k[j] /\ k[i] \in Nat
        BY <3>2, <3>4, <3>5 DEF IsInjective
      <4> QED BY <4>1, <3>1, <3>2
    <3>9. ASSUME NEW u, Contains(r, u) PROVE Contains(E, u)
      <4>1. PICK i \in 1 .. n : r[i] = u
        BY <3>7, <3>9 DEF Contains
      <4>2. k[i] \in 1 .. Len(E) /\ E[k[i]] = u
        BY <4>1, <3>2, <3>4, <3>5
      <4> QED BY <4>2 DEF Contains
    <3> QED BY <3>6, <3>8, <3>9
  <2> HIDE DEF r
  <2>4. StartRelease(c, r)
    BY <2>1 DEF r
  <2>5. \A u \in Tickets : Contains(r, u) => Ctx(u) = c /\ Listed(u)
    BY <2>3, <1>3
  <2> QED BY <2>3, <2>4, <2>5, StartReleaseStep
<1>9. ASSUME NEW t \in Tickets, RollbackToSavepoint(c, t) PROVE IInv'
  <2> DEFINE B == StoredBefore(T, t)
  <2>1. StartRelease(c, S \o B)
    BY <1>9 DEF RollbackToSavepoint
  <2>2. /\ B \in Seq(Tickets) /\ IsInjective(B)
    BY <1>2, BeforeList
  <2>3. \A u : Contains(B, u) => Contains(T, u)
    BY <1>2, BeforeInList
  <2> HIDE DEF S, T, B
  <2>4. /\ S \o B \in Seq(Tickets) /\ IsInjective(S \o B)
        /\ \A u : Contains(S \o B, u) <=> Contains(S, u) \/ Contains(B, u)
    <3>1. \A u : ~(Contains(S, u) /\ Contains(B, u))
      BY <1>1, <1>2, <2>3
    <3> QED BY <3>1, <1>1, <2>2, ConcatList
  <2>5. \A u \in Tickets : Contains(S \o B, u) => Ctx(u) = c /\ Listed(u)
    BY <2>3, <2>4, <1>1, <1>2
  <2> QED BY <2>1, <2>4, <2>5, StartReleaseStep
<1> QED BY <1>4, <1>5, <1>6, <1>7, <1>8, <1>9

(* Tickets of an idle context move between its lists, and no ticket is     *)
(* lost or comes twice.                                                    *)
LEMMA MovedStep ==
  ASSUME IInv, NEW c \in Contexts,
         NEW lists \in [AllDurations -> Seq(Tickets)],
         NEW moved \in Seq(Tickets), NEW d \in AllDurations,
         Moved(c, lists, moved, d),
         \A e \in AllDurations : IsInjective(lists[e]),
         \A t \in Tickets : Contains(moved, t) =>
           Ctx(t) = c /\ Listed(t) /\ Contains(lists[d], t),
         \A e \in AllDurations, t \in Tickets : Contains(lists[e], t) =>
           IF Contains(moved, t) THEN e = d ELSE Contains(m_tickets[c][e], t),
         \A e \in AllDurations, t \in Tickets :
           Contains(m_tickets[c][e], t) => Contains(moved, t) \/ Contains(lists[e], t)
  PROVE  IInv'
<1> USE Basics DEF Moved
<1>0. /\ \A x \in Contexts : m_tickets'[x] = IF x = c THEN lists ELSE m_tickets[x]
      /\ \A t \in Tickets : dur'[t] = IF Contains(moved, t) THEN d ELSE dur[t]
  <2>1. m_tickets \in [Contexts -> [AllDurations -> Seq(Tickets)]]
    BY DEF IInv, TypeInv
  <2> QED BY <2>1
<1>1. \A t \in Tickets : Listed(t) => Listed(t)'
  <2> SUFFICES ASSUME NEW t \in Tickets, Listed(t) PROVE Listed(t)'
    OBVIOUS
  <2>1. dur[t] \in AllDurations /\ Ctx(t) \in Contexts
    BY DEF IInv, TypeInv
  <2>2. CASE Ctx(t) = c
    BY <2>1, <2>2, <1>0 DEF Listed
  <2>3. CASE Ctx(t) # c
    BY <2>1, <2>3, <1>0 DEF Listed
  <2> QED BY <2>2, <2>3
<1>2. \A t \in Tickets : Ctx(t) # c => dur'[t] = dur[t]
  BY <1>0
<1>3. TypeInv'
  <2>1. m_tickets' \in [Contexts -> [AllDurations -> Seq(Tickets)]]
    BY DEF IInv, TypeInv
  <2>2. dur' \in [Tickets -> AllDurations]
    BY DEF IInv, TypeInv
  <2> QED BY <2>1, <2>2 DEF IInv, TypeInv, lockVars, waitVars
<1>4. ControlRight' /\ WriterRight' /\ VictimIsWaiting'
  BY DEF IInv, ControlRight, Control, WriterRight, VictimIsWaiting, lockVars, waitVars
<1>5. ListsRight'
  <2> SUFFICES ASSUME NEW x \in Contexts, NEW e \in AllDurations
               PROVE  /\ IsInjective(m_tickets'[x][e])
                      /\ \A t \in Tickets : Contains(m_tickets'[x][e], t) =>
                           /\ Ctx(t) = x /\ dur'[t] = e
                           /\ type[t] # "free" /\ t \in granted[lockof[t]]
    BY DEF ListsRight, lockVars
  <2>1. CASE x # c
    BY <2>1, <1>0, <1>2 DEF IInv, ListsRight
  <2>2. CASE x = c
    <3>1. m_tickets'[x][e] = lists[e]
      BY <2>2, <1>0
    <3> SUFFICES ASSUME NEW t \in Tickets, Contains(lists[e], t)
                 PROVE  /\ Ctx(t) = c /\ dur'[t] = e
                        /\ type[t] # "free" /\ t \in granted[lockof[t]]
      BY <3>1, <2>2
    <3>2. CASE Contains(moved, t)
      <4>1. Ctx(t) = c /\ Listed(t) /\ e = d
        BY <3>2
      <4>2. dur[t] \in AllDurations
        BY DEF IInv, TypeInv
      <4>3. type[t] # "free" /\ t \in granted[lockof[t]]
        BY <4>1, <4>2 DEF Listed, IInv, ListsRight
      <4> QED BY <4>1, <4>3, <3>2, <1>0
    <3>3. CASE ~Contains(moved, t)
      <4>1. Contains(m_tickets[c][e], t)
        BY <3>3
      <4> QED BY <4>1, <3>3, <1>0 DEF IInv, ListsRight
    <3> QED BY <3>2, <3>3
  <2> QED BY <2>1, <2>2
<1>6. TicketsRight'
  BY <1>1 DEF IInv, TicketsRight, IsPending
<1>7. GrantedRight' /\ WaitingRight'
  BY DEF IInv, GrantedRight, WaitingRight, IsPending, lockVars
<1>8. PendingsRight'
  <2> SUFFICES ASSUME NEW x \in Contexts, pc[x] \in Pending
               PROVE  PendingRight(x)'
    BY DEF PendingsRight
  <2>1. x # c /\ PendingRight(x)
    BY DEF Pending, IInv, PendingsRight
  <2> QED BY <2>1, <1>0 DEF PendingRight, lockVars, waitVars
<1>9. TodosRight'
  BY <1>1 DEF IInv, TodosRight, TodoRight
<1>10. UpgradesRight'
  <2> SUFFICES ASSUME NEW x \in Contexts, upgrade[x] # NoUpgrade
               PROVE  UpgradeRight(x)'
    BY DEF UpgradesRight
  <2>1. x # c /\ UpgradeRight(x)
    BY DEF Pending, IInv, ControlRight, Control, UpgradesRight
  <2>2. pc[x] \in Pending => mine[x] \in Tickets /\ dur'[mine[x]] = dur[mine[x]]
    <3>1. mine[x] \in MaybeTicket /\ (pc[x] \in Pending => mine[x] # NoTicket)
      BY DEF IInv, TypeInv, ControlRight, Control, Pending
    <3>2. pc[x] \in Pending => Ctx(mine[x]) = x
      BY DEF IInv, PendingsRight, PendingRight
    <3> QED BY <3>1, <3>2, <2>1, <1>2 DEF MaybeTicket
  <2> QED BY <2>1, <2>2, <1>0, <1>1 DEF UpgradeRight
<1>11. SavepointsRight'
  <2> SUFFICES ASSUME NEW x \in Contexts, pc[x] \in {"acquire"} \cup Pending
               PROVE  SavepointRight(x)'
    BY DEF SavepointsRight
  <2>1. x # c /\ SavepointRight(x)
    BY DEF Pending, IInv, SavepointsRight
  <2>2. pc[x] \in Pending => mine[x] \in Tickets /\ dur'[mine[x]] = dur[mine[x]]
    <3>1. mine[x] \in MaybeTicket /\ (pc[x] \in Pending => mine[x] # NoTicket)
      BY DEF IInv, TypeInv, ControlRight, Control, Pending
    <3>2. pc[x] \in Pending => Ctx(mine[x]) = x
      BY DEF IInv, PendingsRight, PendingRight
    <3> QED BY <3>1, <3>2, <2>1, <1>2 DEF MaybeTicket
  <2> QED BY <2>1, <2>2, <1>0 DEF SavepointRight, Since, Held
<1>12. GrantedCovered' /\ GrantedCompatible'
  BY DEF IInv, GrantedCovered, GrantedCompatible, lockVars
<1> QED BY <1>3, <1>4, <1>5, <1>6, <1>7, <1>8, <1>9, <1>10, <1>11, <1>12 DEF IInv

(* Each of the calls that change durations moves tickets so.               *)
LEMMA DurationStep ==
  ASSUME IInv, NEW c \in Contexts,
         \/ \E t \in Tickets, d \in Durations : SetLockDuration(c, t, d)
         \/ SetExplicitDurationForAllLocks(c)
         \/ SetTransactionDurationForAllLocks(c)
  PROVE  IInv'
<1> USE Basics
<1> DEFINE m == m_tickets[c]
           S == m["STATEMENT"]
           T == m["TRANSACTION"]
           E == m["EXPLICIT"]
<1>0. m \in [AllDurations -> Seq(Tickets)]
  BY DEF IInv, TypeInv
<1>1. /\ S \in Seq(Tickets) /\ IsInjective(S)
      /\ \A t : Contains(S, t) =>
           t \in Tickets /\ Ctx(t) = c /\ dur[t] = "STATEMENT" /\ Listed(t)
  BY ListFacts
<1>2. /\ T \in Seq(Tickets) /\ IsInjective(T)
      /\ \A t : Contains(T, t) =>
           t \in Tickets /\ Ctx(t) = c /\ dur[t] = "TRANSACTION" /\ Listed(t)
  BY ListFacts
<1>3. /\ E \in Seq(Tickets) /\ IsInjective(E)
      /\ \A t : Contains(E, t) =>
           t \in Tickets /\ Ctx(t) = c /\ dur[t] = "EXPLICIT" /\ Listed(t)
  BY ListFacts
<1>4. ASSUME NEW t \in Tickets, NEW d \in Durations, SetLockDuration(c, t, d)
      PROVE  IInv'
  <2> DEFINE lists == [m EXCEPT !["TRANSACTION"] = RemoveFirst(@, t),
                                ![d] = <<t>> \o @]
  <2>1. /\ Contains(T, t) /\ d # "TRANSACTION" /\ d \in AllDurations
        /\ Moved(c, lists, <<t>>, d)
    BY <1>4, MdlAssumption DEF SetLockDuration
  <2> DEFINE A == RemoveFirst(T, t)
             D == <<t>> \o m[d]
  <2>2. /\ A \in Seq(Tickets) /\ IsInjective(A)
        /\ \A u : Contains(A, u) <=> Contains(T, u) /\ u # t
    BY <1>2, RemoveList
  <2>3. /\ m[d] \in Seq(Tickets) /\ IsInjective(m[d]) /\ ~Contains(m[d], t)
    BY <2>1, <1>1, <1>2, <1>3
  <2>4. /\ D \in Seq(Tickets) /\ IsInjective(D)
        /\ \A u : Contains(D, u) <=> u = t \/ Contains(m[d], u)
    BY <2>3, PushList
  <2>5. /\ lists \in [AllDurations -> Seq(Tickets)]
        /\ \A e \in AllDurations :
             lists[e] = IF e = d THEN D ELSE IF e = "TRANSACTION" THEN A ELSE m[e]
    BY <2>1, <2>2, <2>4, <1>0
  <2> DEFINE moved == <<t>>
  <2>6. \A u : Contains(moved, u) <=> u = t
    BY DEF Contains
  <2>7. moved \in Seq(Tickets)
    OBVIOUS
  <2> HIDE DEF lists, A, D, moved
  <2>8. \A e \in AllDurations : IsInjective(lists[e])
    BY <2>2, <2>4, <2>5, <1>1, <1>2, <1>3
  <2>9. \A u \in Tickets : Contains(moved, u) =>
          Ctx(u) = c /\ Listed(u) /\ Contains(lists[d], u)
    BY <2>1, <2>4, <2>5, <2>6, <1>2
  <2>10. \A e \in AllDurations, u \in Tickets : Contains(lists[e], u) =>
           IF Contains(moved, u) THEN e = d ELSE Contains(m_tickets[c][e], u)
    <3> SUFFICES ASSUME NEW e \in AllDurations, NEW u \in Tickets,
                        Contains(lists[e], u)
                 PROVE  IF u = t THEN e = d ELSE Contains(m[e], u)
      BY <2>6
    <3> QED BY <2>1, <2>2, <2>4, <2>5, <1>1, <1>2, <1>3
  <2>11. \A e \in AllDurations, u \in Tickets : Contains(m_tickets[c][e], u) =>
           Contains(moved, u) \/ Contains(lists[e], u)
    BY <2>1, <2>2, <2>4, <2>5, <2>6
  <2>12. Moved(c, lists, moved, d)
    BY <2>1 DEF lists, moved
  <2>13. d \in AllDurations /\ lists \in [AllDurations -> Seq(Tickets)]
    BY <2>1, <2>5
  <2> HIDE Basics
  <2> QED BY <2>7, <2>8, <2>9, <2>10, <2>11, <2>12, <2>13, MovedStep, Zenon
<1>5. ASSUME SetExplicitDurationForAllLocks(c) PROVE IInv'
  <2> DEFINE all == Reverse(E) \o Reverse(S) \o T
             lists == InOneList(all, "EXPLICIT")
  <2>1. Moved(c, lists, all, "EXPLICIT")
    BY <1>5 DEF SetExplicitDurationForAllLocks
  <2> DEFINE RE == Reverse(E)
             RS == Reverse(S)
             B == RE \o RS
  <2>2. /\ RE \in Seq(Tickets) /\ IsInjective(RE)
        /\ \A u : Contains(RE, u) <=> Contains(E, u)
    BY <1>3, ReverseList
  <2>3. /\ RS \in Seq(Tickets) /\ IsInjective(RS)
        /\ \A u : Contains(RS, u) <=> Contains(S, u)
    BY <1>1, ReverseList
  <2> HIDE DEF RE, RS
  <2>4. /\ B \in Seq(Tickets) /\ IsInjective(B)
        /\ \A u : Contains(B, u) <=> Contains(E, u) \/ Contains(S, u)
    <3>1. \A u : ~(Contains(RE, u) /\ Contains(RS, u))
      BY <2>2, <2>3, <1>1, <1>3
    <3> QED BY <3>1, <2>2, <2>3, ConcatList
  <2> HIDE DEF B
  <2>5. /\ B \o T \in Seq(Tickets) /\ IsInjective(B \o T)
        /\ \A u : Contains(B \o T, u) <=>
             Contains(E, u) \/ Contains(S, u) \/ Contains(T, u)
    <3>1. \A u : ~(Contains(B, u) /\ Contains(T, u))
      BY <2>4, <1>1, <1>2, <1>3
    <3> QED BY <3>1, <2>4, <1>2, ConcatList
  <2>6. all = B \o T
    BY DEF RE, RS, B
  <2> HIDE DEF all
  <2>7. /\ lists \in [AllDurations -> Seq(Tickets)]
        /\ lists["STATEMENT"] = <<>> /\ lists["TRANSACTION"] = <<>>
        /\ lists["EXPLICIT"] = all
    BY <2>5, <2>6, EmptyList DEF InOneList
  <2> HIDE DEF lists
  <2>8. \A e \in AllDurations : IsInjective(lists[e])
    BY <2>5, <2>6, <2>7, EmptyList
  <2>9. \A u \in Tickets : Contains(all, u) =>
          Ctx(u) = c /\ Listed(u) /\ Contains(lists["EXPLICIT"], u)
    BY <2>5, <2>6, <2>7, <1>1, <1>2, <1>3
  <2>10. \A e \in AllDurations, u \in Tickets : Contains(lists[e], u) =>
           IF Contains(all, u) THEN e = "EXPLICIT" ELSE Contains(m_tickets[c][e], u)
    BY <2>7, EmptyList
  <2>11. \A e \in AllDurations, u \in Tickets : Contains(m_tickets[c][e], u) =>
           Contains(all, u) \/ Contains(lists[e], u)
    BY <2>5, <2>6
  <2>12. all \in Seq(Tickets)
    BY <2>5, <2>6
  <2> QED BY <2>1, <2>7, <2>8, <2>9, <2>10, <2>11, <2>12, MovedStep
<1>6. ASSUME SetTransactionDurationForAllLocks(c) PROVE IInv'
  <2> DEFINE all == Reverse(T) \o E
             lists == InOneList(all, "TRANSACTION")
             RT == Reverse(T)
  <2>1. S = <<>> /\ Moved(c, lists, all, "TRANSACTION")
    BY <1>6 DEF SetTransactionDurationForAllLocks
  <2>2. /\ RT \in Seq(Tickets) /\ IsInjective(RT)
        /\ \A u : Contains(RT, u) <=> Contains(T, u)
    BY <1>2, ReverseList
  <2> HIDE DEF RT
  <2>3. /\ RT \o E \in Seq(Tickets) /\ IsInjective(RT \o E)
        /\ \A u : Contains(RT \o E, u) <=> Contains(T, u) \/ Contains(E, u)
    <3>1. \A u : ~(Contains(RT, u) /\ Contains(E, u))
      BY <2>2, <1>2, <1>3
    <3> QED BY <3>1, <2>2, <1>3, ConcatList
  <2>4. all = RT \o E
    BY DEF RT
  <2> HIDE DEF all
  <2>5. /\ lists \in [AllDurations -> Seq(Tickets)]
        /\ lists["STATEMENT"] = <<>> /\ lists["TRANSACTION"] = all
        /\ lists["EXPLICIT"] = <<>>
    BY <2>3, <2>4, EmptyList DEF InOneList
  <2> HIDE DEF lists
  <2>6. \A e \in AllDurations : IsInjective(lists[e])
    BY <2>3, <2>4, <2>5, EmptyList
  <2>7. \A u \in Tickets : Contains(all, u) =>
          Ctx(u) = c /\ Listed(u) /\ Contains(lists["TRANSACTION"], u)
    BY <2>3, <2>4, <2>5, <1>2, <1>3
  <2>8. \A e \in AllDurations, u \in Tickets : Contains(lists[e], u) =>
          IF Contains(all, u) THEN e = "TRANSACTION" ELSE Contains(m_tickets[c][e], u)
    BY <2>5, EmptyList
  <2>9. \A e \in AllDurations, u \in Tickets : Contains(m_tickets[c][e], u) =>
          Contains(all, u) \/ Contains(lists[e], u)
    BY <2>1, <2>3, <2>4, EmptyList
  <2>10. all \in Seq(Tickets)
    BY <2>3, <2>4
  <2> QED BY <2>1, <2>5, <2>6, <2>7, <2>8, <2>9, <2>10, MovedStep
<1> QED BY <1>4, <1>5, <1>6

(* What the invariant says of context c and its tickets.                   *)
OwnRight(c) ==
  /\ Control(c)
  /\ \A l \in Locks : writer[l] = c => pc[c] = "reschedule" /\ sched[c].lock = l
  /\ \A d \in AllDurations : IsInjective(m_tickets[c][d])
  /\ \A d \in AllDurations, t \in Tickets : Contains(m_tickets[c][d], t) =>
       /\ Ctx(t) = c /\ dur[t] = d
       /\ type[t] # "free" /\ t \in granted[lockof[t]]
  /\ \A t \in Tickets : Ctx(t) = c /\ type[t] # "free" =>
       lockof[t] \in Locks /\ (Listed(t) \/ IsPending(t))
  /\ \A l \in Locks, t \in Tickets : Ctx(t) = c /\ t \in granted[l] =>
       lockof[t] = l /\ type[t] # "free"
  /\ \A l \in Locks, t \in Tickets : Ctx(t) = c /\ Contains(waiting[l], t) =>
       /\ lockof[t] = l /\ type[t] # "free"
       /\ t \notin granted[l] /\ IsPending(t)
  /\ pc[c] \in Pending => PendingRight(c)
  /\ TodoRight(c)
  /\ upgrade[c] # NoUpgrade => UpgradeRight(c)
  /\ pc[c] \in {"acquire"} \cup Pending => SavepointRight(c)

(* A step that changes nothing but the state of context c, its tickets,    *)
(* their place in the locks, and whether c has a lock write-locked.        *)
OthersStep(c) ==
  /\ \A x \in Contexts \ {c} :
       /\ pc'[x] = pc[x] /\ want'[x] = want[x] /\ svp'[x] = svp[x]
       /\ mine'[x] = mine[x] /\ upgrade'[x] = upgrade[x] /\ todo'[x] = todo[x]
       /\ sched'[x] = sched[x] /\ m_tickets'[x] = m_tickets[x]
       /\ status'[x] = status[x] /\ waiting_for'[x] = waiting_for[x]
       /\ result'[x] = result[x]
  /\ \A t \in Tickets : Ctx(t) # c =>
       /\ type'[t] = type[t] /\ lockof'[t] = lockof[t] /\ dur'[t] = dur[t]
       /\ \A l \in Locks : /\ t \in granted'[l] <=> t \in granted[l]
                           /\ Contains(waiting'[l], t) <=> Contains(waiting[l], t)
  /\ \A l \in Locks : \/ writer'[l] = writer[l]
                      \/ {writer[l], writer'[l]} \subseteq {NoContext, c}
  /\ victim' = victim
  /\ \/ \A x \in Contexts : victim[x] # c
     \/ pc'[c] = pc[c] /\ waiting_for'[c] = waiting_for[c]

(* The ticket of a call under way.                                         *)
LEMMA PendingFacts ==
  ASSUME IInv, NEW c \in Contexts, pc[c] \in Pending
  PROVE  /\ PendingRight(c) /\ mine[c] \in Tickets /\ Ctx(mine[c]) = c
         /\ lockof[mine[c]] \in Locks /\ type[mine[c]] \in Types
<1>1. PendingRight(c)
  BY DEF IInv, PendingsRight
<1>2. Ctx(mine[c]) = c /\ type[mine[c]] # "free"
  BY <1>1 DEF PendingRight
<1>3. mine[c] \in MaybeTicket /\ mine[c] # NoTicket
  <2>1. mine[c] \in MaybeTicket /\ Control(c)
    BY DEF IInv, TypeInv, ControlRight
  <2> QED BY <2>1 DEF Control, Pending
<1>4. mine[c] \in Tickets
  BY <1>3 DEF MaybeTicket
<1>5. lockof[mine[c]] \in Locks /\ type[mine[c]] \in Types
  BY <1>2, <1>4 DEF IInv, TicketsRight, TypeInv
<1> QED BY <1>1, <1>2, <1>4, <1>5

(* It preserves the invariant if it does so for c and for the locks.       *)
LEMMA OwnStep ==
  ASSUME IInv, NEW c \in Contexts, OthersStep(c), TypeInv', OwnRight(c)',
         (\A l \in Locks : IsInjective(waiting[l]))',
         GrantedCovered', GrantedCompatible'
  PROVE  IInv'
<1> USE Basics
<1>0. \A t \in Tickets : Ctx(t) # c =>
        Listed(t)' = Listed(t) /\ IsPending(t)' = IsPending(t)
  BY DEF OthersStep, Listed, IsPending
<1>1. ASSUME NEW x \in Contexts, x # c PROVE Control(x)'
  <2>1. Control(x)
    BY DEF IInv, ControlRight
  <2>2. sched[x].lock \in Locks /\ writer[sched[x].lock] = x =>
          writer'[sched[x].lock] = x
    BY <1>1 DEF OthersStep
  <2> QED BY <1>1, <2>1, <2>2 DEF Control, OthersStep
<1>2. WriterRight'
  <2> SUFFICES ASSUME NEW l \in Locks, writer'[l] # NoContext
               PROVE  pc'[writer'[l]] = "reschedule" /\ sched'[writer'[l]].lock = l
    BY DEF WriterRight
  <2>1. CASE writer'[l] = c
    BY <2>1 DEF OwnRight
  <2>2. CASE writer'[l] # c
    <3>1. writer'[l] = writer[l] /\ writer[l] \in Contexts
      BY <2>2 DEF OthersStep, IInv, TypeInv
    <3> QED BY <2>2, <3>1 DEF OthersStep, IInv, WriterRight
  <2> QED BY <2>1, <2>2
<1>3. VictimIsWaiting'
  <2> SUFFICES ASSUME NEW x \in Contexts, victim[x] # NoContext
               PROVE  /\ waiting_for'[victim[x]] # NoTicket
                      /\ pc'[victim[x]] \in {"search", "victim", "wait", "done"}
    BY DEF VictimIsWaiting, OthersStep
  <2>1. /\ victim[x] \in Contexts /\ waiting_for[victim[x]] # NoTicket
        /\ pc[victim[x]] \in {"search", "victim", "wait", "done"}
    BY DEF IInv, TypeInv, VictimIsWaiting
  <2>2. CASE victim[x] = c
    BY <2>1, <2>2 DEF OthersStep
  <2>3. CASE victim[x] # c
    BY <2>1, <2>3 DEF OthersStep
  <2> QED BY <2>2, <2>3
<1>4. ListsRight'
  <2> SUFFICES ASSUME NEW x \in Contexts, NEW d \in AllDurations
               PROVE  /\ IsInjective(m_tickets'[x][d])
                      /\ \A t \in Tickets : Contains(m_tickets'[x][d], t) =>
                           /\ Ctx(t) = x /\ dur'[t] = d
                           /\ type'[t] # "free" /\ t \in granted'[lockof'[t]]
    BY DEF ListsRight
  <2>1. CASE x = c
    BY <2>1 DEF OwnRight
  <2>2. CASE x # c
    <3>1. m_tickets'[x] = m_tickets[x]
      BY <2>2 DEF OthersStep
    <3>2. IsInjective(m_tickets[x][d])
      BY DEF IInv, ListsRight
    <3>3. ASSUME NEW t \in Tickets, Contains(m_tickets[x][d], t)
          PROVE  /\ Ctx(t) = x /\ dur'[t] = d
                 /\ type'[t] # "free" /\ t \in granted'[lockof'[t]]
      <4>1. /\ Ctx(t) = x /\ dur[t] = d
            /\ type[t] # "free" /\ t \in granted[lockof[t]]
        BY <3>3 DEF IInv, ListsRight
      <4>2. lockof[t] \in Locks
        BY <4>1 DEF IInv, TicketsRight
      <4> QED BY <2>2, <4>1, <4>2 DEF OthersStep
    <3> QED BY <3>1, <3>2, <3>3
  <2> QED BY <2>1, <2>2
<1>5. TicketsRight'
  <2> SUFFICES ASSUME NEW t \in Tickets, type'[t] # "free"
               PROVE  lockof'[t] \in Locks /\ (Listed(t)' \/ IsPending(t)')
    BY DEF TicketsRight
  <2>1. CASE Ctx(t) = c
    BY <2>1 DEF OwnRight
  <2>2. CASE Ctx(t) # c
    BY <2>2, <1>0 DEF OthersStep, IInv, TicketsRight
  <2> QED BY <2>1, <2>2
<1>6. GrantedRight'
  <2> SUFFICES ASSUME NEW l \in Locks, NEW t \in granted'[l]
               PROVE  lockof'[t] = l /\ type'[t] # "free"
    BY DEF GrantedRight
  <2>0. t \in Tickets
    BY DEF TypeInv
  <2>1. CASE Ctx(t) = c
    BY <2>0, <2>1 DEF OwnRight
  <2>2. CASE Ctx(t) # c
    BY <2>0, <2>2 DEF OthersStep, IInv, GrantedRight
  <2> QED BY <2>1, <2>2
<1>7. WaitingRight'
  <2> SUFFICES ASSUME NEW l \in Locks, NEW t \in Tickets, Contains(waiting'[l], t)
               PROVE  /\ lockof'[t] = l /\ type'[t] # "free"
                      /\ t \notin granted'[l] /\ IsPending(t)'
    BY DEF WaitingRight
  <2>1. CASE Ctx(t) = c
    BY <2>1 DEF OwnRight
  <2>2. CASE Ctx(t) # c
    <3>1. Contains(waiting[l], t)
      BY <2>2 DEF OthersStep
    <3>2. /\ lockof[t] = l /\ type[t] # "free"
          /\ t \notin granted[l] /\ IsPending(t)
      BY <3>1 DEF IInv, WaitingRight
    <3> QED BY <2>2, <3>2, <1>0 DEF OthersStep
  <2> QED BY <2>1, <2>2
<1>8. PendingsRight'
  <2> SUFFICES ASSUME NEW x \in Contexts, pc'[x] \in Pending PROVE PendingRight(x)'
    BY DEF PendingsRight
  <2>1. CASE x = c
    BY <2>1 DEF OwnRight
  <2>2. CASE x # c
    <3>1. pc[x] \in Pending
      BY <2>2 DEF OthersStep
    <3>2. /\ PendingRight(x) /\ mine[x] \in Tickets /\ Ctx(mine[x]) = x
          /\ lockof[mine[x]] \in Locks
      BY <3>1, PendingFacts
    <3> QED BY <2>2, <3>1, <3>2 DEF OthersStep, PendingRight
  <2> QED BY <2>1, <2>2
<1>9. TodosRight'
  <2> SUFFICES ASSUME NEW x \in Contexts PROVE TodoRight(x)'
    BY DEF TodosRight
  <2>1. CASE x = c
    BY <2>1 DEF OwnRight
  <2>2. CASE x # c
    BY <2>2, <1>0 DEF IInv, TodosRight, TodoRight, OthersStep
  <2> QED BY <2>1, <2>2
<1>10. UpgradesRight'
  <2> SUFFICES ASSUME NEW x \in Contexts, upgrade'[x] # NoUpgrade
               PROVE  UpgradeRight(x)'
    BY DEF UpgradesRight
  <2>1. CASE x = c
    BY <2>1 DEF OwnRight
  <2>2. CASE x # c
    <3>1. UpgradeRight(x)
      BY <2>2 DEF IInv, UpgradesRight, OthersStep
    <3>2. pc[x] \in Pending => mine[x] \in Tickets /\ Ctx(mine[x]) = x
      BY PendingFacts
    <3>3. pc[x] = "merge" => mine[x] \in Tickets /\ Ctx(mine[x]) = x
      <4>1. mine[x] \in MaybeTicket /\ (pc[x] = "merge" => mine[x] # NoTicket)
        BY DEF IInv, TypeInv, ControlRight, Control
      <4> QED BY <4>1, <3>1 DEF UpgradeRight, IInv, ListsRight, MaybeTicket
    <3>4. /\ upgrade'[x] = upgrade[x] /\ mine'[x] = mine[x] /\ pc'[x] = pc[x]
          /\ want'[x] = want[x] /\ m_tickets'[x] = m_tickets[x]
      BY <2>2 DEF OthersStep
    <3>5. \A t \in Tickets : Ctx(t) # c =>
            type'[t] = type[t] /\ lockof'[t] = lockof[t] /\ dur'[t] = dur[t]
      BY DEF OthersStep
    <3> QED BY <2>2, <3>1, <3>2, <3>3, <3>4, <3>5, <1>0 DEF UpgradeRight
  <2> QED BY <2>1, <2>2
<1>11. SavepointsRight'
  <2> SUFFICES ASSUME NEW x \in Contexts, pc'[x] \in {"acquire"} \cup Pending
               PROVE  SavepointRight(x)'
    BY DEF SavepointsRight
  <2>1. CASE x = c
    BY <2>1 DEF OwnRight
  <2>2. CASE x # c
    <3>1. /\ svp'[x] = svp[x] /\ mine'[x] = mine[x] /\ pc'[x] = pc[x]
          /\ want'[x] = want[x] /\ m_tickets'[x] = m_tickets[x]
      BY <2>2 DEF OthersStep
    <3>2. SavepointRight(x)
      BY <3>1 DEF IInv, SavepointsRight
    <3>3. pc[x] \in Pending => dur'[mine[x]] = dur[mine[x]]
      BY <2>2, PendingFacts DEF OthersStep
    <3> QED BY <3>1, <3>2, <3>3 DEF SavepointRight, Since, Held
  <2> QED BY <2>1, <2>2
<1>12. ControlRight'
  <2>1. Control(c)'
    BY DEF OwnRight
  <2> QED BY <1>1, <2>1 DEF ControlRight
<1> QED BY <1>2, <1>3, <1>4, <1>5, <1>6, <1>7, <1>8, <1>9, <1>10, <1>11, <1>12
    DEF IInv

(* Nobody has found a context that does not wait to be a victim.           *)
LEMMA NotVictim ==
  ASSUME IInv, NEW c \in Contexts, waiting_for[c] = NoTicket
  PROVE  \A x \in Contexts : victim[x] # c
BY Basics DEF IInv, VictimIsWaiting

(* A new ticket t is pushed to one of the lists of c.                      *)
LEMMA PushedLists ==
  ASSUME IInv, NEW c \in Contexts, NEW d \in AllDurations, NEW t \in Tickets,
         \A e \in AllDurations : ~Contains(m_tickets[c][e], t), Push(c, d, t)
  PROVE  /\ m_tickets' \in [Contexts -> [AllDurations -> Seq(Tickets)]]
         /\ \A x \in Contexts \ {c} : m_tickets'[x] = m_tickets[x]
         /\ \A e \in AllDurations :
              m_tickets'[c][e] = IF e = d THEN <<t>> \o m_tickets[c][e]
                                          ELSE m_tickets[c][e]
         /\ \A e \in AllDurations : IsInjective(m_tickets'[c][e])
         /\ \A e \in AllDurations, u \in Tickets :
              Contains(m_tickets'[c][e], u) <=>
                Contains(m_tickets[c][e], u) \/ (u = t /\ e = d)
<1> USE Basics
<1>1. /\ m_tickets \in [Contexts -> [AllDurations -> Seq(Tickets)]]
      /\ m_tickets[c][d] \in Seq(Tickets) /\ IsInjective(m_tickets[c][d])
  BY DEF IInv, TypeInv, ListsRight
<1>2. /\ <<t>> \o m_tickets[c][d] \in Seq(Tickets)
      /\ IsInjective(<<t>> \o m_tickets[c][d])
      /\ \A u : Contains(<<t>> \o m_tickets[c][d], u) <=>
           u = t \/ Contains(m_tickets[c][d], u)
  BY <1>1, PushList
<1>3. /\ m_tickets' \in [Contexts -> [AllDurations -> Seq(Tickets)]]
      /\ \A x \in Contexts \ {c} : m_tickets'[x] = m_tickets[x]
      /\ \A e \in AllDurations :
           m_tickets'[c][e] = IF e = d THEN <<t>> \o m_tickets[c][e]
                                       ELSE m_tickets[c][e]
  BY <1>1, <1>2 DEF Push
<1>4. \A e \in AllDurations : IsInjective(m_tickets'[c][e])
  BY <1>2, <1>3 DEF IInv, ListsRight
<1>5. \A e \in AllDurations, u \in Tickets :
        Contains(m_tickets'[c][e], u) <=>
          Contains(m_tickets[c][e], u) \/ (u = t /\ e = d)
  BY <1>2, <1>3
<1> QED BY <1>3, <1>4, <1>5

(* It comes after the savepoint of the call.                               *)
LEMMA PushedSince ==
  ASSUME IInv, NEW c \in Contexts, NEW d \in {"STATEMENT", "TRANSACTION"},
         NEW t \in Tickets,
         \A e \in AllDurations : ~Contains(m_tickets[c][e], t), Push(c, d, t),
         SavepointRight(c), svp'[c] = svp[c]
  PROVE  /\ (svp[c].stmt # NoTicket => Contains(m_tickets[c]["STATEMENT"], svp[c].stmt))'
         /\ (svp[c].trans # NoTicket => Contains(m_tickets[c]["TRANSACTION"], svp[c].trans))'
         /\ (\A u \in Tickets : u \in svp[c].held <=> u \in Held(c) /\ ~Since(c, u))'
<1>0. d \in AllDurations
  BY Basics
<1> DEFINE S == m_tickets[c]["STATEMENT"]
           T == m_tickets[c]["TRANSACTION"]
<1>1. /\ S \in Seq(Tickets) /\ IsInjective(S) /\ ~Contains(S, t)
      /\ T \in Seq(Tickets) /\ IsInjective(T) /\ ~Contains(T, t)
  BY Basics DEF IInv, TypeInv, ListsRight
<1>2. /\ \A e \in AllDurations :
           m_tickets'[c][e] = IF e = d THEN <<t>> \o m_tickets[c][e]
                                       ELSE m_tickets[c][e]
      /\ \A e \in AllDurations, u \in Tickets :
           Contains(m_tickets'[c][e], u) <=>
             Contains(m_tickets[c][e], u) \/ (u = t /\ e = d)
  BY <1>0, PushedLists, Zenon
<1> USE Basics
<1>3. /\ svp[c].stmt \in MaybeTicket /\ svp[c].trans \in MaybeTicket
  BY DEF IInv, TypeInv
<1>4. /\ svp[c].stmt # NoTicket => Contains(S, svp[c].stmt)
      /\ svp[c].trans # NoTicket => Contains(T, svp[c].trans)
      /\ \A u \in Tickets : u \in svp[c].held <=> u \in Held(c) /\ ~Since(c, u)
  BY DEF SavepointRight
<1>5. t # svp[c].stmt /\ t # svp[c].trans
  BY <1>1, <1>4
<1>6. /\ svp[c].stmt # NoTicket => Contains(m_tickets'[c]["STATEMENT"], svp[c].stmt)
      /\ svp[c].trans # NoTicket => Contains(m_tickets'[c]["TRANSACTION"], svp[c].trans)
  BY <1>2, <1>3, <1>4 DEF MaybeTicket
<1>7. \A u \in Tickets : (u \in Held(c))' <=> u \in Held(c) \/ u = t
  BY <1>2 DEF Held
<1>8. \A u \in Tickets : Since(c, u)' <=> Since(c, u) \/ u = t
  <2> SUFFICES ASSUME NEW u \in Tickets PROVE Since(c, u)' <=> Since(c, u) \/ u = t
    OBVIOUS
  <2>1. CASE d = "STATEMENT"
    <3>1. m_tickets'[c]["STATEMENT"] = <<t>> \o S /\ m_tickets'[c]["TRANSACTION"] = T
      BY <1>2, <2>1
    <3>2. Contains(StoredBefore(<<t>> \o S, svp[c].stmt), u) <=>
            u = t \/ Contains(StoredBefore(S, svp[c].stmt), u)
      BY <1>1, <1>5, BeforePush
    <3> QED BY <3>1, <3>2 DEF Since
  <2>2. CASE d = "TRANSACTION"
    <3>1. m_tickets'[c]["TRANSACTION"] = <<t>> \o T /\ m_tickets'[c]["STATEMENT"] = S
      BY <1>2, <2>2
    <3>2. Contains(StoredBefore(<<t>> \o T, svp[c].trans), u) <=>
            u = t \/ Contains(StoredBefore(T, svp[c].trans), u)
      BY <1>1, <1>5, BeforePush
    <3> QED BY <3>1, <3>2 DEF Since
  <2> QED BY <2>1, <2>2
<1>9. t \notin Held(c)
  BY DEF Held
<1> QED BY <1>4, <1>6, <1>7, <1>8, <1>9

(* What becomes of a call when a request of it has been granted.           *)
LEMMA GotFacts ==
  ASSUME IInv, NEW c \in Contexts, NEW t \in Tickets, NEW rest \in SUBSET want[c],
         Got(c, t, rest)
  PROVE  /\ want' \in [Contexts -> SUBSET Request] /\ pc' \in [Contexts -> Places]
         /\ mine' \in [Contexts -> MaybeTicket]
         /\ svp' \in [Contexts -> [stmt : MaybeTicket, trans : MaybeTicket,
                                   held : SUBSET Tickets]]
         /\ \A x \in Contexts \ {c} :
              /\ pc'[x] = pc[x] /\ want'[x] = want[x] /\ svp'[x] = svp[x]
              /\ mine'[x] = mine[x]
         /\ upgrade' = upgrade /\ todo' = todo /\ sched' = sched
         /\ want'[c] = rest
         /\ pc'[c] = IF upgrade[c] # NoUpgrade THEN "merge"
                     ELSE IF rest = {} THEN "idle" ELSE "acquire"
         /\ mine'[c] = IF upgrade[c] = NoUpgrade THEN NoTicket ELSE t
         /\ pc'[c] = "acquire" => svp'[c] = svp[c]
<1> USE Basics DEF Got
<1>1. /\ want \in [Contexts -> SUBSET Request] /\ pc \in [Contexts -> Places]
      /\ mine \in [Contexts -> MaybeTicket]
  BY DEF IInv, TypeInv
<1>2. svp \in [Contexts -> [stmt : MaybeTicket, trans : MaybeTicket,
                            held : SUBSET Tickets]]
  BY DEF IInv, TypeInv
<1>3. /\ want' \in [Contexts -> SUBSET Request] /\ pc' \in [Contexts -> Places]
      /\ mine' \in [Contexts -> MaybeTicket]
  BY <1>1 DEF Places, MaybeTicket
<1>4. svp' \in [Contexts -> [stmt : MaybeTicket, trans : MaybeTicket,
                             held : SUBSET Tickets]]
  BY <1>2 DEF NoSavepoint, MaybeTicket
<1>5. \A x \in Contexts \ {c} :
        /\ pc'[x] = pc[x] /\ want'[x] = want[x] /\ svp'[x] = svp[x]
        /\ mine'[x] = mine[x]
  BY <1>1, <1>2
<1>6. /\ want'[c] = rest
      /\ pc'[c] = IF upgrade[c] # NoUpgrade THEN "merge"
                  ELSE IF rest = {} THEN "idle" ELSE "acquire"
      /\ mine'[c] = IF upgrade[c] = NoUpgrade THEN NoTicket ELSE t
  BY <1>1
<1>7. pc'[c] = "acquire" => svp'[c] = svp[c]
  BY <1>2, <1>6
<1> QED BY <1>3, <1>4, <1>5, <1>6, <1>7

(* A request is granted at once with a new ticket.                         *)
GrantsNew(c, r, t) ==
  /\ pc[c] = "acquire" /\ IsFirstFree(c, t)
  /\ Create(t, r)
  /\ granted' = [granted EXCEPT ![r.lock] = @ \cup {t}]
  /\ gsum' = [gsum EXCEPT ![r.lock] = AddTicket(@, r.type)]
  /\ Push(c, r.dur, t)
  /\ Got(c, t, want[c] \ {r})
  /\ UNCHANGED <<waiting, wsum, hog, writer, waitVars>>

(* This keeps the invariant if others hold nothing incompatible.           *)
LEMMA GrantsNewStep ==
  ASSUME IInv, NEW c \in Contexts, NEW r \in want[c], NEW t \in Tickets,
         GrantsNew(c, r, t),
         \A u \in granted[r.lock] :
           Ctx(u) # c => type[u] \notin Incompatible(r.lock, r.type)
  PROVE  IInv'
<1> USE DEF GrantsNew
<1>1. r \in Request /\ r.lock \in Locks /\ r.type \in Types /\ r.dur \in AllDurations
  <2>1. r \in Request
    BY DEF IInv, TypeInv
  <2> QED BY <2>1, MdlAssumption DEF Request
<1>2. Ctx(t) = c /\ type[t] = "free"
  BY DEF IsFirstFree, FreeTickets
<1>3. /\ \A e \in AllDurations : ~Contains(m_tickets[c][e], t)
      /\ \A l \in Locks : t \notin granted[l] /\ ~Contains(waiting[l], t)
  BY <1>2 DEF IInv, ListsRight, GrantedRight, WaitingRight
<1>4. /\ m_tickets' \in [Contexts -> [AllDurations -> Seq(Tickets)]]
      /\ \A x \in Contexts \ {c} : m_tickets'[x] = m_tickets[x]
      /\ \A e \in AllDurations : IsInjective(m_tickets'[c][e])
      /\ \A e \in AllDurations, u \in Tickets :
           Contains(m_tickets'[c][e], u) <=>
             Contains(m_tickets[c][e], u) \/ (u = t /\ e = r.dur)
  <2>1. Push(c, r.dur, t)
    OBVIOUS
  <2> QED BY <1>1, <1>3, <2>1, PushedLists
<1>5. /\ want' \in [Contexts -> SUBSET Request] /\ pc' \in [Contexts -> Places]
      /\ mine' \in [Contexts -> MaybeTicket]
      /\ svp' \in [Contexts -> [stmt : MaybeTicket, trans : MaybeTicket,
                                held : SUBSET Tickets]]
      /\ \A x \in Contexts \ {c} :
           /\ pc'[x] = pc[x] /\ want'[x] = want[x] /\ svp'[x] = svp[x]
           /\ mine'[x] = mine[x]
      /\ upgrade' = upgrade /\ todo' = todo /\ sched' = sched
      /\ want'[c] = want[c] \ {r}
      /\ pc'[c] = IF upgrade[c] # NoUpgrade THEN "merge"
                  ELSE IF want[c] \ {r} = {} THEN "idle" ELSE "acquire"
      /\ mine'[c] = IF upgrade[c] = NoUpgrade THEN NoTicket ELSE t
      /\ pc'[c] = "acquire" => svp'[c] = svp[c]
  BY GotFacts
<1> USE Basics
<1>6. /\ type' \in [Tickets -> Types \cup {"free"}]
      /\ lockof' \in [Tickets -> Locks \cup {NoLock}]
      /\ dur' \in [Tickets -> AllDurations]
      /\ \A u \in Tickets :
           /\ type'[u] = IF u = t THEN r.type ELSE type[u]
           /\ lockof'[u] = IF u = t THEN r.lock ELSE lockof[u]
           /\ dur'[u] = IF u = t THEN r.dur ELSE dur[u]
  <2>1. /\ type \in [Tickets -> Types \cup {"free"}]
        /\ lockof \in [Tickets -> Locks \cup {NoLock}]
        /\ dur \in [Tickets -> AllDurations]
    BY DEF IInv, TypeInv
  <2> QED BY <2>1, <1>1 DEF Create
<1>7. /\ granted' \in [Locks -> SUBSET Tickets]
      /\ \A l \in Locks :
           granted'[l] = IF l = r.lock THEN granted[l] \cup {t} ELSE granted[l]
      /\ gsum' \in [Locks -> Sum]
      /\ \A l \in Locks :
           gsum'[l] = IF l = r.lock THEN AddTicket(gsum[l], r.type) ELSE gsum[l]
  <2>1. granted \in [Locks -> SUBSET Tickets] /\ gsum \in [Locks -> Sum]
    BY DEF IInv, TypeInv
  <2>2. AddTicket(gsum[r.lock], r.type) \in Sum
    BY <2>1, <1>1, SumType
  <2> QED BY <2>1, <2>2, <1>1
<1>8. TypeInv'
  BY <1>4, <1>5, <1>6, <1>7 DEF IInv, TypeInv, waitVars
<1>9. Control(c)
  BY DEF IInv, ControlRight
<1>10. /\ waiting_for[c] = NoTicket /\ todo[c] = <<>>
       /\ \A u \in Tickets : Ctx(u) = c => ~IsPending(u)
       /\ \A l \in Locks : writer[l] # c
  BY <1>9 DEF Control, Pending, IsPending, IInv, WriterRight
<1>11. OthersStep(c)
  <2>1. \A x \in Contexts : victim[x] # c
    BY <1>10, NotVictim
  <2> QED BY <2>1, <1>2, <1>4, <1>5, <1>6, <1>7 DEF OthersStep, waitVars
<1>12. \A u \in Tickets : Ctx(u) = c =>
         /\ Listed(u) => u # t /\ Listed(u)'
         /\ Listed(t)'
  <2>1. Listed(t)'
    BY <1>1, <1>2, <1>4, <1>6 DEF Listed
  <2>2. ASSUME NEW u \in Tickets, Ctx(u) = c, Listed(u) PROVE u # t /\ Listed(u)'
    <3>1. dur[u] \in AllDurations
      BY DEF IInv, TypeInv
    <3>2. u # t
      BY <2>2, <3>1, <1>3 DEF Listed
    <3> QED BY <2>2, <3>1, <3>2, <1>4, <1>6 DEF Listed
  <2> QED BY <2>1, <2>2
<1>13. OwnRight(c)'
  <2>1. Control(c)'
    BY <1>9, <1>5 DEF Control, waitVars, Pending
  <2>2. \A l \in Locks : writer'[l] # c
    BY <1>10
  <2>3. ASSUME NEW d \in AllDurations, NEW u \in Tickets,
               Contains(m_tickets'[c][d], u)
        PROVE  /\ Ctx(u) = c /\ dur'[u] = d
               /\ type'[u] # "free" /\ u \in granted'[lockof'[u]]
    <3>1. CASE u = t
      <4>1. d = r.dur
        BY <2>3, <3>1, <1>3, <1>4
      <4> QED BY <3>1, <4>1, <1>1, <1>2, <1>6, <1>7
    <3>2. CASE u # t
      <4>1. Contains(m_tickets[c][d], u)
        BY <2>3, <3>2, <1>4
      <4>2. /\ Ctx(u) = c /\ dur[u] = d
            /\ type[u] # "free" /\ u \in granted[lockof[u]]
        BY <4>1 DEF IInv, ListsRight
      <4>3. lockof[u] \in Locks
        BY <4>2 DEF IInv, TicketsRight
      <4> QED BY <3>2, <4>2, <4>3, <1>6, <1>7
    <3> QED BY <3>1, <3>2
  <2>4. ASSUME NEW u \in Tickets, Ctx(u) = c, type'[u] # "free"
        PROVE  lockof'[u] \in Locks /\ Listed(u)'
    <3>1. CASE u = t
      BY <3>1, <2>4, <1>1, <1>6, <1>12
    <3>2. CASE u # t
      <4>1. lockof[u] \in Locks /\ Listed(u)
        BY <2>4, <3>2, <1>6, <1>10 DEF IInv, TicketsRight
      <4> QED BY <2>4, <3>2, <4>1, <1>6, <1>12
    <3> QED BY <3>1, <3>2
  <2>5. ASSUME NEW l \in Locks, NEW u \in Tickets, u \in granted'[l]
        PROVE  lockof'[u] = l /\ type'[u] # "free"
    <3>1. CASE u = t
      BY <3>1, <2>5, <1>1, <1>3, <1>6, <1>7
    <3>2. CASE u # t
      BY <3>2, <2>5, <1>6, <1>7 DEF IInv, GrantedRight
    <3> QED BY <3>1, <3>2
  <2>6. \A l \in Locks, u \in Tickets : Ctx(u) = c => ~Contains(waiting'[l], u)
    BY <1>10 DEF IInv, WaitingRight
  <2>7. pc'[c] \notin Pending
    BY <1>5 DEF Pending
  <2>8. TodoRight(c)'
    <3>1. todo'[c] = <<>>
      BY <1>5, <1>10
    <3>2. IsInjective(<<>>) /\ \A u : ~Contains(<<>>, u)
      BY EmptyList, Zenon
    <3> QED BY <3>1, <3>2 DEF TodoRight
  <2>9. ASSUME upgrade'[c] # NoUpgrade PROVE UpgradeRight(c)'
    <3>1. UpgradeRight(c) /\ upgrade[c] # NoUpgrade
      BY <2>9, <1>5 DEF IInv, UpgradesRight
    <3>2. mine'[c] = t /\ pc'[c] = "merge"
      BY <3>1, <1>5
    <3>3. r = [lock |-> lockof[upgrade[c].ticket], type |-> upgrade[c].type,
               dur |-> "TRANSACTION"]
      BY <3>1 DEF UpgradeRight
    <3>4. PICK o \in Tickets : o = upgrade[c].ticket /\ Ctx(o) = c /\ Listed(o)
      BY <3>1 DEF UpgradeRight
    <3>4a. o # t /\ Listed(o)'
      BY <3>4, <1>12
    <3>5. /\ Contains(m_tickets'[c]["TRANSACTION"], t)
          /\ lockof'[t] = lockof[upgrade[c].ticket]
          /\ type'[t] = upgrade[c].type
      BY <3>3, <1>4, <1>6
    <3> QED BY <3>1, <3>2, <3>4, <3>4a, <3>5, <1>5, <1>6, Zenon
         DEF UpgradeRight, Pending, StrongerOrEqual
  <2>10. ASSUME pc'[c] = "acquire" PROVE SavepointRight(c)'
    <3>1. /\ SavepointRight(c) /\ svp'[c] = svp[c]
          /\ want[c] \ {r} # {}
      BY <2>10, <1>5 DEF IInv, SavepointsRight
    <3>2. r.dur \in {"STATEMENT", "TRANSACTION"}
      BY <3>1, <1>1 DEF SavepointRight
    <3>3. Push(c, r.dur, t)
      OBVIOUS
    <3>4. /\ (svp[c].stmt # NoTicket => Contains(m_tickets[c]["STATEMENT"], svp[c].stmt))'
          /\ (svp[c].trans # NoTicket => Contains(m_tickets[c]["TRANSACTION"], svp[c].trans))'
          /\ (\A u \in Tickets : u \in svp[c].held <=> u \in Held(c) /\ ~Since(c, u))'
      <4> HIDE Basics DEF GrantsNew
      <4> QED BY <3>1, <3>2, <3>3, <1>3, PushedSince
    <3>5. \A p, q \in want'[c] : p.dur = "EXPLICIT" => q = p
      BY <3>1, <1>5 DEF SavepointRight
    <3> QED BY <3>4, <3>5, <2>7 DEF SavepointRight
  <2> QED BY <2>1, <2>2, <1>4, <2>3, <2>4, <2>5, <2>6, <2>7, <2>8, <2>9, <2>10
       DEF OwnRight
<1>14. GrantedCovered'
  <2> SUFFICES ASSUME NEW l \in Locks PROVE Covers(gsum'[l], granted'[l], type')
    BY DEF GrantedCovered
  <2>1. /\ gsum[l] \in Sum /\ Covers(gsum[l], granted[l], type)
        /\ granted[l] \subseteq Tickets
    BY DEF IInv, TypeInv, GrantedCovered
  <2>2. Covers(gsum[l], granted[l], type')
    <3>1. \A u \in granted[l] : type'[u] = type[u]
      BY <2>1, <1>3, <1>6
    <3> QED BY <2>1, <3>1, CoversFrame
  <2>3. CASE l = r.lock
    <3>1. type'[t] = r.type /\ t \notin granted[l]
      BY <1>3, <1>6
    <3>2. Covers(AddTicket(gsum[l], r.type), granted[l] \cup {t}, type')
      BY <2>1, <2>2, <3>1, <1>1, CoversAdd
    <3> QED BY <2>3, <3>2, <1>7
  <2>4. CASE l # r.lock
    BY <2>2, <2>4, <1>7
  <2> QED BY <2>3, <2>4
<1>15. GrantedCompatible'
  <2> SUFFICES ASSUME NEW l \in Locks, NEW u \in granted'[l], NEW v \in granted'[l],
                      Ctx(u) # Ctx(v)
               PROVE  type'[v] \notin Incompatible(l, type'[u])
    BY DEF GrantedCompatible
  <2>0. u \in Tickets /\ v \in Tickets
    BY <1>7
  <2>1. CASE u # t /\ v # t
    BY <2>0, <2>1, <1>6, <1>7 DEF IInv, GrantedCompatible
  <2>2. CASE u = t
    BY <2>0, <2>2, <1>2, <1>3, <1>6, <1>7
  <2>3. CASE v = t
    <3>1. l = r.lock /\ u \in granted[l] /\ Ctx(u) # c /\ type'[u] = type[u]
          /\ type'[v] = r.type
      BY <2>0, <2>3, <1>2, <1>3, <1>6, <1>7
    <3>2. type[u] \in Types
      <4>1. type[u] # "free"
        BY <3>1 DEF IInv, GrantedRight
      <4> QED BY <4>1, <2>0 DEF IInv, TypeInv
    <3> QED BY <3>1, <3>2, <1>1, IncompatibleSymmetric
  <2> QED BY <2>1, <2>2, <2>3
<1>16. (\A l \in Locks : IsInjective(waiting[l]))'
  BY DEF IInv, WaitingRight
<1> QED BY <1>8, <1>11, <1>13, <1>14, <1>15, <1>16, OwnStep

(* clone_ticket(): what the found ticket excludes, the clone need not ask. *)
LEMMA AcquireCloneStep ==
  ASSUME IInv, NEW c \in Contexts, NEW r \in want[c], NEW t \in Tickets,
         AcquireClone(c, r, t)
  PROVE  IInv'
<1>1. GrantsNew(c, r, t)
  BY DEF AcquireClone, GrantsNew
<1>2. r.lock \in Locks /\ r.type \in Types
  BY DEF IInv, TypeInv, Request
<1>3. PICK f \in Tickets : /\ f \in Held(c) /\ lockof[f] = r.lock
                           /\ StrongerOrEqual(Strategy[r.lock], type[f], r.type)
  BY DEF AcquireClone, Anywhere, Found, Held
<1>4. f \in granted[r.lock] /\ Ctx(f) = c /\ type[f] \in Types
  BY <1>3, HeldFacts
<1>5. ASSUME NEW u \in granted[r.lock], Ctx(u) # c
      PROVE  type[u] \notin Incompatible(r.lock, r.type)
  <2>1. u \in Tickets
    BY <1>2 DEF IInv, TypeInv
  <2>2. type[u] \in Types
    BY <2>1, <1>2 DEF IInv, GrantedRight, TypeInv
  <2>3. type[u] \notin Incompatible(r.lock, type[f])
    BY <1>2, <1>4, <1>5 DEF IInv, GrantedCompatible
  <2> QED BY <2>2, <2>3, <1>2, <1>3, <1>4, WeakerIsCompatible
<1> QED BY <1>1, <1>5, GrantsNewStep

(* can_grant_lock() trusts the bitmap only when it says there is no        *)
(* conflict, and the bitmap covers the granted tickets.                    *)
LEMMA CanGrantMeans ==
  ASSUME IInv, NEW l \in Locks, NEW y \in Types, NEW c, NEW ignore,
         CanGrant(l, y, c, ignore)
  PROVE  \A u \in granted[l] : Ctx(u) # c => type[u] \notin Incompatible(l, y)
<1>1. Covers(gsum[l], granted[l], type)
  BY DEF IInv, GrantedCovered
<1> QED BY <1>1 DEF Covers, CanGrant

(* try_acquire_lock_impl() grants.                                         *)
LEMMA AcquireGrantStep ==
  ASSUME IInv, NEW c \in Contexts, NEW r \in want[c], NEW t \in Tickets,
         AcquireGrant(c, r, t)
  PROVE  IInv'
<1>1. GrantsNew(c, r, t)
  BY DEF AcquireGrant, GrantsNew
<1>2. r.lock \in Locks /\ r.type \in Types
  BY DEF IInv, TypeInv, Request
<1>3. CanGrant(r.lock, r.type, c, FALSE)
  BY DEF AcquireGrant
<1> QED BY <1>1, <1>2, <1>3, CanGrantMeans, GrantsNewStep

(* A request joins the queue.                                              *)
LEMMA AcquireEnqueueStep ==
  ASSUME IInv, NEW c \in Contexts, NEW r \in want[c], NEW t \in Tickets,
         AcquireEnqueue(c, r, t)
  PROVE  IInv'
<1> USE Basics DEF AcquireEnqueue
<1>1. r \in Request /\ r.lock \in Locks /\ r.type \in Types /\ r.dur \in AllDurations
  <2>1. r \in Request
    BY DEF IInv, TypeInv
  <2> QED BY <2>1, MdlAssumption DEF Request
<1>2. Ctx(t) = c /\ type[t] = "free"
  BY DEF IsFirstFree, FreeTickets
<1>3. /\ \A e \in AllDurations : ~Contains(m_tickets[c][e], t)
      /\ \A l \in Locks : t \notin granted[l] /\ ~Contains(waiting[l], t)
  BY <1>2 DEF IInv, ListsRight, GrantedRight, WaitingRight
<1>4. /\ waiting' \in [Locks -> Seq(Tickets)]
      /\ \A l \in Locks : IsInjective(waiting'[l])
      /\ \A l \in Locks, u \in Tickets : Contains(waiting'[l], u) <=>
           Contains(waiting[l], u) \/ (l = r.lock /\ u = t)
  <2>1. /\ waiting \in [Locks -> Seq(Tickets)]
        /\ \A l \in Locks : IsInjective(waiting[l])
    BY DEF IInv, TypeInv, WaitingRight
  <2>2. /\ Append(waiting[r.lock], t) \in Seq(Tickets)
        /\ \A u : Contains(Append(waiting[r.lock], t), u) <=>
                    u = t \/ Contains(waiting[r.lock], u)
        /\ IsInjective(Append(waiting[r.lock], t))
    BY <2>1, <1>1, <1>3, AppendList
  <2>3. \A l \in Locks : waiting'[l] = IF l = r.lock THEN Append(waiting[l], t)
                                       ELSE waiting[l]
    BY <2>1
  <2>4. waiting' \in [Locks -> Seq(Tickets)]
    BY <2>1, <2>2
  <2> QED BY <2>1, <2>2, <2>3, <2>4
<1>5. /\ want' \in [Contexts -> SUBSET Request] /\ pc' \in [Contexts -> Places]
      /\ mine' \in [Contexts -> MaybeTicket] /\ status' \in [Contexts -> Statuses]
      /\ \A x \in Contexts \ {c} :
           /\ pc'[x] = pc[x] /\ want'[x] = want[x]
           /\ mine'[x] = mine[x] /\ status'[x] = status[x]
      /\ want'[c] = want[c] \ {r} /\ pc'[c] = "queued" /\ mine'[c] = t
      /\ status'[c] = "EMPTY"
  <2>1. /\ want \in [Contexts -> SUBSET Request] /\ pc \in [Contexts -> Places]
        /\ mine \in [Contexts -> MaybeTicket] /\ status \in [Contexts -> Statuses]
    BY DEF IInv, TypeInv
  <2> QED BY <2>1 DEF Places, MaybeTicket, Statuses
<1>6. /\ type' \in [Tickets -> Types \cup {"free"}]
      /\ lockof' \in [Tickets -> Locks \cup {NoLock}]
      /\ dur' \in [Tickets -> AllDurations]
      /\ \A u \in Tickets :
           /\ type'[u] = IF u = t THEN r.type ELSE type[u]
           /\ lockof'[u] = IF u = t THEN r.lock ELSE lockof[u]
           /\ dur'[u] = IF u = t THEN r.dur ELSE dur[u]
  <2>1. /\ type \in [Tickets -> Types \cup {"free"}]
        /\ lockof \in [Tickets -> Locks \cup {NoLock}]
        /\ dur \in [Tickets -> AllDurations]
    BY DEF IInv, TypeInv
  <2> QED BY <2>1, <1>1 DEF Create
<1>7. wsum' \in [Locks -> Sum]
  <2>1. wsum \in [Locks -> Sum]
    BY DEF IInv, TypeInv
  <2>2. AddTicket(wsum[r.lock], r.type) \in Sum
    BY <2>1, <1>1, SumType
  <2> QED BY <2>1, <2>2, <1>1
<1>8. TypeInv'
  BY <1>4, <1>5, <1>6, <1>7 DEF IInv, TypeInv
<1>9. Control(c)
  BY DEF IInv, ControlRight
<1>10. /\ waiting_for[c] = NoTicket /\ todo[c] = <<>>
       /\ \A u \in Tickets : Ctx(u) = c => ~IsPending(u)
       /\ \A l \in Locks : writer[l] # c
  BY <1>9 DEF Control, Pending, IsPending, IInv, WriterRight
<1>11. OthersStep(c)
  <2>1. \A x \in Contexts : victim[x] # c
    BY <1>10, NotVictim
  <2> QED BY <2>1, <1>2, <1>4, <1>5, <1>6 DEF OthersStep
<1>12. ASSUME NEW u \in Tickets, Ctx(u) = c, Listed(u) PROVE u # t /\ Listed(u)'
  <2>1. dur[u] \in AllDurations
    BY DEF IInv, TypeInv
  <2>2. u # t
    BY <1>12, <2>1, <1>3 DEF Listed
  <2> QED BY <1>12, <2>1, <2>2, <1>6 DEF Listed
<1>13. IsPending(t)'
  BY <1>2, <1>5 DEF IsPending, Pending
<1>14. OwnRight(c)'
  <2>1. Control(c)'
    BY <1>9, <1>5 DEF Control, Pending
  <2>2. \A l \in Locks : writer'[l] # c
    BY <1>10
  <2>3. ASSUME NEW d \in AllDurations, NEW u \in Tickets,
               Contains(m_tickets'[c][d], u)
        PROVE  /\ Ctx(u) = c /\ dur'[u] = d
               /\ type'[u] # "free" /\ u \in granted'[lockof'[u]]
    <3>1. u # t
      BY <2>3, <1>3
    <3> QED BY <2>3, <3>1, <1>6 DEF IInv, ListsRight
  <2>4. ASSUME NEW u \in Tickets, Ctx(u) = c, type'[u] # "free"
        PROVE  lockof'[u] \in Locks /\ (Listed(u)' \/ IsPending(u)')
    <3>1. CASE u = t
      BY <3>1, <1>1, <1>6, <1>13
    <3>2. CASE u # t
      <4>1. lockof[u] \in Locks /\ Listed(u)
        BY <2>4, <3>2, <1>6, <1>10 DEF IInv, TicketsRight
      <4> QED BY <2>4, <3>2, <4>1, <1>6, <1>12
    <3> QED BY <3>1, <3>2
  <2>5. ASSUME NEW l \in Locks, NEW u \in Tickets, u \in granted'[l]
        PROVE  lockof'[u] = l /\ type'[u] # "free"
    BY <2>5, <1>3, <1>6 DEF IInv, GrantedRight
  <2>6. ASSUME NEW l \in Locks, NEW u \in Tickets, Ctx(u) = c,
               Contains(waiting'[l], u)
        PROVE  /\ lockof'[u] = l /\ type'[u] # "free"
               /\ u \notin granted'[l] /\ IsPending(u)'
    <3>1. ~Contains(waiting[l], u)
      BY <2>6, <1>10 DEF IInv, WaitingRight
    <3>2. l = r.lock /\ u = t
      BY <2>6, <3>1, <1>4
    <3> QED BY <3>2, <1>1, <1>3, <1>6, <1>13
  <2>7. PendingRight(c)'
    <3>1. lockof'[t] = r.lock /\ type'[t] = r.type /\ Contains(waiting'[r.lock], t)
      BY <1>1, <1>4, <1>6
    <3> QED BY <3>1, <1>1, <1>2, <1>3, <1>5 DEF PendingRight
  <2>8. TodoRight(c)'
    BY <1>10, EmptyList DEF TodoRight
  <2>9. ASSUME upgrade'[c] # NoUpgrade PROVE UpgradeRight(c)'
    <3>1. UpgradeRight(c)
      BY <2>9 DEF IInv, UpgradesRight
    <3>2. r = [lock |-> lockof[upgrade[c].ticket], type |-> upgrade[c].type,
               dur |-> "TRANSACTION"]
      BY <3>1 DEF UpgradeRight
    <3>3. PICK o \in Tickets : o = upgrade[c].ticket /\ Ctx(o) = c /\ Listed(o)
      BY <3>1 DEF UpgradeRight
    <3>4. o # t /\ Listed(o)'
      BY <3>3, <1>12
    <3>5. /\ lockof'[t] = lockof[o] /\ type'[t] = upgrade[c].type
          /\ dur'[t] = "TRANSACTION"
      BY <3>2, <3>3, <1>6
    <3> QED BY <3>1, <3>3, <3>4, <3>5, <1>5, <1>6 DEF UpgradeRight
  <2>10. SavepointRight(c)'
    <3>1. SavepointRight(c)
      BY DEF IInv, SavepointsRight
    <3>2. dur'[t] = "EXPLICIT" => want'[c] = {}
      BY <3>1, <1>5, <1>6 DEF SavepointRight
    <3> QED BY <3>1, <3>2, <1>5 DEF SavepointRight, Since, Held
  <2>11. \A d \in AllDurations : IsInjective(m_tickets'[c][d])
    BY DEF IInv, ListsRight
  <2> QED BY <2>1, <2>2, <2>3, <2>4, <2>5, <2>6, <2>7, <2>8, <2>9, <2>10, <2>11
       DEF OwnRight
<1>15. \A l \in Locks : \A u \in granted[l] : type'[u] = type[u]
  <2>1. granted \in [Locks -> SUBSET Tickets]
    BY DEF IInv, TypeInv
  <2> QED BY <2>1, <1>3, <1>6
<1>16. GrantedCovered'
  BY <1>15, CoversFrame DEF IInv, GrantedCovered
<1>17. GrantedCompatible'
  BY <1>15 DEF IInv, GrantedCompatible
<1> QED BY <1>4, <1>8, <1>11, <1>14, <1>16, <1>17, OwnStep

(* A granted request leaves its wait and enters the lists of its context.  *)
LEMMA DoneGrantedStep ==
  ASSUME IInv, NEW c \in Contexts, DoneGranted(c)
  PROVE  IInv'
<1> USE DEF DoneGranted
<1>1. pc[c] \in Pending
  BY DEF Pending
<1>2. PICK t \in Tickets : t = mine[c]
  BY <1>1, PendingFacts
<1>3. /\ PendingRight(c) /\ Ctx(t) = c /\ lockof[t] \in Locks /\ type[t] \in Types
  BY <1>1, <1>2, PendingFacts
<1>4. /\ t \in granted[lockof[t]]
      /\ \A e \in AllDurations : ~Contains(m_tickets[c][e], t)
  BY <1>2, <1>3 DEF PendingRight
<1>5. dur[t] \in AllDurations
  BY DEF IInv, TypeInv
<1>6. /\ m_tickets' \in [Contexts -> [AllDurations -> Seq(Tickets)]]
      /\ \A x \in Contexts \ {c} : m_tickets'[x] = m_tickets[x]
      /\ \A e \in AllDurations : IsInjective(m_tickets'[c][e])
      /\ \A e \in AllDurations, u \in Tickets :
           Contains(m_tickets'[c][e], u) <=>
             Contains(m_tickets[c][e], u) \/ (u = t /\ e = dur[t])
  <2>1. Push(c, dur[t], t)
    BY <1>2
  <2> QED BY <1>4, <1>5, <2>1, PushedLists
<1>7. /\ want' \in [Contexts -> SUBSET Request] /\ pc' \in [Contexts -> Places]
      /\ mine' \in [Contexts -> MaybeTicket]
      /\ svp' \in [Contexts -> [stmt : MaybeTicket, trans : MaybeTicket,
                                held : SUBSET Tickets]]
      /\ \A x \in Contexts \ {c} :
           /\ pc'[x] = pc[x] /\ want'[x] = want[x] /\ svp'[x] = svp[x]
           /\ mine'[x] = mine[x]
      /\ upgrade' = upgrade /\ todo' = todo /\ sched' = sched
      /\ want'[c] = want[c]
      /\ pc'[c] = IF upgrade[c] # NoUpgrade THEN "merge"
                  ELSE IF want[c] = {} THEN "idle" ELSE "acquire"
      /\ mine'[c] = IF upgrade[c] = NoUpgrade THEN NoTicket ELSE t
      /\ pc'[c] = "acquire" => svp'[c] = svp[c]
  <2>1. Got(c, t, want[c]) /\ want[c] \in SUBSET want[c]
    BY <1>2
  <2> QED BY <2>1, GotFacts
<1> USE Basics
<1>8. /\ waiting_for' \in [Contexts -> MaybeTicket] /\ result' \in [Contexts -> Statuses]
      /\ \A x \in Contexts \ {c} :
           waiting_for'[x] = waiting_for[x] /\ result'[x] = result[x]
      /\ waiting_for'[c] = NoTicket
  BY DEF IInv, TypeInv, MaybeTicket, Statuses
<1>9. TypeInv'
  BY <1>6, <1>7, <1>8 DEF IInv, TypeInv, lockVars, ticketVars
<1>10. Control(c)
  BY DEF IInv, ControlRight
<1>11. todo[c] = <<>> /\ \A l \in Locks : writer[l] # c
  BY <1>10 DEF Control, IInv, WriterRight
<1>12. OthersStep(c)
  BY <1>6, <1>7, <1>8 DEF OthersStep, Unlocked, lockVars, ticketVars
<1>13. \A u \in Tickets : Listed(u)' <=> (Listed(u) \/ u = t)
  <2>1. ASSUME NEW u \in Tickets PROVE Listed(u)' <=> (Listed(u) \/ u = t)
    <3>1. dur[u] \in AllDurations /\ dur'[u] = dur[u] /\ Ctx(u) \in Contexts
      BY DEF IInv, TypeInv, ticketVars
    <3>2. CASE Ctx(u) = c
      BY <3>1, <3>2, <1>3, <1>6 DEF Listed
    <3>3. CASE Ctx(u) # c
      BY <3>1, <3>3, <1>3, <1>6 DEF Listed
    <3> QED BY <3>2, <3>3
  <2> QED BY <2>1
<1>14. OwnRight(c)'
  <2>1. Control(c)'
    BY <1>10, <1>7, <1>8 DEF Control, lockVars, Pending
  <2>2. \A l \in Locks : writer'[l] # c
    BY <1>11 DEF lockVars
  <2>3. ASSUME NEW d \in AllDurations, NEW u \in Tickets,
               Contains(m_tickets'[c][d], u)
        PROVE  /\ Ctx(u) = c /\ dur'[u] = d
               /\ type'[u] # "free" /\ u \in granted'[lockof'[u]]
    <3>1. CASE u = t /\ d = dur[t]
      BY <3>1, <1>3, <1>4 DEF lockVars, ticketVars
    <3>2. CASE Contains(m_tickets[c][d], u)
      BY <3>2 DEF IInv, ListsRight, lockVars, ticketVars
    <3> QED BY <2>3, <3>1, <3>2, <1>6
  <2>4. ASSUME NEW u \in Tickets, Ctx(u) = c, type'[u] # "free"
        PROVE  lockof'[u] \in Locks /\ Listed(u)'
    <3>1. lockof[u] \in Locks /\ (Listed(u) \/ IsPending(u))
      BY <2>4 DEF IInv, TicketsRight, ticketVars
    <3>2. IsPending(u) => u = t
      BY <2>4, <1>2 DEF IsPending
    <3> QED BY <3>1, <3>2, <1>13 DEF ticketVars
  <2>5. ASSUME NEW l \in Locks, NEW u \in Tickets, u \in granted'[l]
        PROVE  lockof'[u] = l /\ type'[u] # "free"
    BY <2>5 DEF IInv, GrantedRight, lockVars, ticketVars
  <2>6. ASSUME NEW l \in Locks, NEW u \in Tickets, Ctx(u) = c,
               Contains(waiting'[l], u)
        PROVE  FALSE
    <3>1. lockof[u] = l /\ u \notin granted[l] /\ IsPending(u)
      BY <2>6 DEF IInv, WaitingRight, lockVars
    <3>2. u = t
      BY <2>6, <3>1, <1>2 DEF IsPending
    <3> QED BY <3>1, <3>2, <1>4
  <2>7. pc'[c] \notin Pending
    BY <1>7 DEF Pending
  <2>8. TodoRight(c)'
    <3>1. todo'[c] = <<>>
      BY <1>7, <1>11
    <3>2. IsInjective(<<>>) /\ \A u : ~Contains(<<>>, u)
      BY EmptyList, Zenon
    <3> QED BY <3>1, <3>2 DEF TodoRight
  <2>9. ASSUME upgrade'[c] # NoUpgrade PROVE UpgradeRight(c)'
    <3>1. UpgradeRight(c) /\ upgrade[c] # NoUpgrade
      BY <2>9, <1>7 DEF IInv, UpgradesRight
    <3>2. mine'[c] = t /\ pc'[c] = "merge"
      BY <3>1, <1>7
    <3>3. PICK o \in Tickets : o = upgrade[c].ticket /\ Ctx(o) = c /\ Listed(o)
      BY <3>1 DEF UpgradeRight
    <3>4. Listed(o)'
      BY <3>3, <1>13
    <3>5. /\ lockof[t] = lockof[o] /\ type[t] = upgrade[c].type
          /\ dur[t] = "TRANSACTION"
      BY <3>1, <3>3, <1>1, <1>2 DEF UpgradeRight
    <3>6. Contains(m_tickets'[c]["TRANSACTION"], t)
      BY <3>5, <1>6
    <3> QED BY <3>1, <3>2, <3>3, <3>4, <3>5, <3>6, <1>7, Zenon
         DEF UpgradeRight, Pending, StrongerOrEqual, ticketVars
  <2>10. ASSUME pc'[c] = "acquire" PROVE SavepointRight(c)'
    <3>1. /\ SavepointRight(c) /\ svp'[c] = svp[c] /\ want[c] # {}
      BY <2>10, <1>1, <1>7 DEF IInv, SavepointsRight
    <3>2. dur[t] \in {"STATEMENT", "TRANSACTION"}
      BY <3>1, <1>1, <1>2, <1>5 DEF SavepointRight
    <3>3. Push(c, dur[t], t)
      BY <1>2
    <3>4. /\ (svp[c].stmt # NoTicket => Contains(m_tickets[c]["STATEMENT"], svp[c].stmt))'
          /\ (svp[c].trans # NoTicket => Contains(m_tickets[c]["TRANSACTION"], svp[c].trans))'
          /\ (\A u \in Tickets : u \in svp[c].held <=> u \in Held(c) /\ ~Since(c, u))'
      <4> HIDE Basics DEF DoneGranted
      <4> QED BY <3>1, <3>2, <3>3, <1>4, PushedSince
    <3>5. \A p, q \in want'[c] : p.dur = "EXPLICIT" => q = p
      BY <3>1, <1>7 DEF SavepointRight
    <3> QED BY <3>4, <3>5, <2>7 DEF SavepointRight
  <2> QED BY <2>1, <2>2, <1>6, <2>3, <2>4, <2>5, <2>6, <2>7, <2>8, <2>9, <2>10
       DEF OwnRight
<1>15. GrantedCovered' /\ GrantedCompatible'
  BY DEF IInv, GrantedCovered, GrantedCompatible, lockVars, ticketVars
<1>16. (\A l \in Locks : IsInjective(waiting[l]))'
  BY DEF IInv, WaitingRight, lockVars
<1> QED BY <1>9, <1>12, <1>14, <1>15, <1>16, OwnStep

(* What remove_ticket() and downgrade_lock() do last, to lock l.           *)
LEMMA LeaveFacts ==
  ASSUME IInv, NEW c \in Contexts, NEW l \in Locks,
         NEW g \in [Locks -> Sum], NEW w \in [Locks -> Sum],
         writer[l] = NoContext, pc[c] # "reschedule",
         LeaveNew(c, l, g, w) \/ LeaveRecycled(c, l, g, w) \/ BeginReschedule(c, l, g, w)
  PROVE  /\ gsum' \in [Locks -> Sum] /\ wsum' \in [Locks -> Sum]
         /\ hog' \in [Locks -> 0 .. MaxHog]
         /\ writer' \in [Locks -> Contexts \cup {NoContext}]
         /\ sched' \in [Contexts -> [lock : Locks \cup {NoLock}, i : Nat, skip : BOOLEAN]]
         /\ pc' \in [Contexts -> Places]
         /\ \A x \in Contexts \ {c} : pc'[x] = pc[x] /\ sched'[x] = sched[x]
         /\ \A k \in Locks : \/ writer'[k] = writer[k]
                             \/ {writer[k], writer'[k]} \subseteq {NoContext, c}
         /\ \A k \in Locks : writer'[k] = c =>
              pc'[c] = "reschedule" /\ sched'[c].lock = k
         /\ \/ /\ pc'[c] = "reschedule" /\ sched'[c] # NoSched /\ sched'[c].i # 0
               /\ sched'[c].lock \in Locks /\ writer'[sched'[c].lock] = c
            \/ pc'[c] = Resting(todo'[c]) /\ sched'[c] = NoSched
         /\ \A k \in Locks : \/ gsum'[k] = g[k]
                             \/ gsum'[k] = EmptySum /\ granted'[k] = {}
<1> USE Basics
<1>1. /\ hog \in [Locks -> 0 .. MaxHog]
      /\ writer \in [Locks -> Contexts \cup {NoContext}]
      /\ pc \in [Contexts -> Places]
  BY DEF IInv, TypeInv
<1>2. sched \in [Contexts -> [lock : Locks \cup {NoLock}, i : Nat, skip : BOOLEAN]]
  BY DEF IInv, TypeInv
<1>3. sched[c] = NoSched /\ \A k \in Locks : writer[k] # c
  BY DEF IInv, ControlRight, Control, WriterRight
<1>4. EmptySum \in Sum
  BY DEF EmptySum, Sum
<1>5. CASE LeaveNew(c, l, g, w) \/ LeaveRecycled(c, l, g, w)
  <2>1. pc' = [pc EXCEPT ![c] = Resting(todo'[c])] /\ writer' = writer /\ sched' = sched
    BY <1>5 DEF LeaveNew, LeaveRecycled
  <2>2. pc' \in [Contexts -> Places] /\ pc'[c] = Resting(todo'[c])
        /\ \A x \in Contexts \ {c} : pc'[x] = pc[x]
    BY <1>1, <2>1 DEF Resting, Places
  <2>3. CASE LeaveNew(c, l, g, w)
    <3>1. gsum' \in [Locks -> Sum] /\ wsum' \in [Locks -> Sum]
      BY <2>3, <1>4 DEF LeaveNew
    <3>2. hog' \in [Locks -> 0 .. MaxHog]
      BY <2>3, <1>1, MdlAssumption DEF LeaveNew
    <3>3. \A k \in Locks : \/ gsum'[k] = g[k]
                           \/ gsum'[k] = EmptySum /\ granted'[k] = {}
      BY <2>3 DEF LeaveNew, IsEmpty
    <3> QED BY <2>1, <2>2, <3>1, <3>2, <3>3, <1>1, <1>2, <1>3
  <2>4. CASE LeaveRecycled(c, l, g, w)
    BY <2>1, <2>2, <2>4, <1>1, <1>2, <1>3 DEF LeaveRecycled
  <2> QED BY <2>3, <2>4, <1>5
<1>6. CASE BeginReschedule(c, l, g, w)
  <2> DEFINE s == [lock |-> l, i |-> 1,
                   skip |-> /\ hog[l] >= MaxWriteLockCount
                            /\ w[l].bitmap \ Hogs(l) # {}]
  <2>1. s \in [lock : Locks \cup {NoLock}, i : Nat, skip : BOOLEAN]
    OBVIOUS
  <2>2. s.lock = l /\ s # NoSched /\ s.i # 0
    BY DEF NoSched
  <2>3. sched' = [sched EXCEPT ![c] = s]
    BY <1>6 DEF BeginReschedule
  <2> HIDE DEF s
  <2>4. /\ sched' \in [Contexts -> [lock : Locks \cup {NoLock}, i : Nat, skip : BOOLEAN]]
        /\ sched'[c] = s /\ \A x \in Contexts \ {c} : sched'[x] = sched[x]
    BY <2>1, <2>3, <1>2
  <2>5. /\ pc' \in [Contexts -> Places] /\ pc'[c] = "reschedule"
        /\ \A x \in Contexts \ {c} : pc'[x] = pc[x]
    BY <1>1, <1>6 DEF BeginReschedule, Places
  <2>6. /\ writer' \in [Locks -> Contexts \cup {NoContext}]
        /\ \A k \in Locks : writer'[k] = IF k = l THEN c ELSE writer[k]
    BY <1>1, <1>6 DEF BeginReschedule
  <2>7. gsum' = g /\ wsum' = w /\ hog' = hog
    BY <1>6 DEF BeginReschedule
  <2> QED BY <2>2, <2>4, <2>5, <2>6, <2>7, <1>1, <1>3
<1> QED BY <1>5, <1>6

(* A ticket t ceases to exist.                                             *)
LEMMA DestroyFacts ==
  ASSUME IInv, NEW t \in Tickets, Destroy(t)
  PROVE  /\ type' \in [Tickets -> Types \cup {"free"}]
         /\ lockof' \in [Tickets -> Locks \cup {NoLock}]
         /\ dur' \in [Tickets -> AllDurations]
         /\ type'[t] = "free"
         /\ \A u \in Tickets \ {t} :
              /\ type'[u] = type[u] /\ lockof'[u] = lockof[u] /\ dur'[u] = dur[u]
<1>1. /\ type \in [Tickets -> Types \cup {"free"}]
      /\ lockof \in [Tickets -> Locks \cup {NoLock}]
      /\ dur \in [Tickets -> AllDurations]
  BY DEF IInv, TypeInv
<1> QED BY <1>1, Basics DEF Destroy

(* Fewer tickets are compatible if more are.                               *)
LEMMA FewerCompatible ==
  ASSUME IInv,
         \A l \in Locks : \A u \in granted'[l] : u \in granted[l] /\ type'[u] = type[u]
  PROVE  GrantedCompatible'
BY DEF IInv, GrantedCompatible

(* A failed wait: the request leaves the queue, or the granted ones.       *)
LEMMA WithdrawStep ==
  ASSUME IInv, NEW c \in Contexts, Withdraw(c)
  PROVE  IInv'
<1>1. pc[c] = "withdraw" /\ pc[c] \in Pending
  BY DEF Pending, Withdraw
<1>2. PICK t \in Tickets : t = mine[c]
  BY <1>1, PendingFacts
<1>3. /\ PendingRight(c) /\ Ctx(t) = c /\ lockof[t] \in Locks /\ type[t] \in Types
      /\ \A e \in AllDurations : ~Contains(m_tickets[c][e], t)
  BY <1>1, <1>2, PendingFacts DEF PendingRight
<1> DEFINE l == lockof[t]
           w == [wsum EXCEPT ![l] = RemoveTicket(@, type[t])]
<1>4. /\ writer[l] = NoContext
      /\ waiting' = [waiting EXCEPT ![l] = RemoveFirst(@, t)]
      /\ granted' = [granted EXCEPT ![l] = @ \ {t}]
      /\ Destroy(t) /\ Fail(c)
      /\ LeaveNew(c, l, gsum, w) \/ LeaveRecycled(c, l, gsum, w)
           \/ BeginReschedule(c, l, gsum, w)
      /\ UNCHANGED <<waitVars, m_tickets>>
  BY <1>2 DEF Withdraw
<1>5. gsum \in [Locks -> Sum] /\ w \in [Locks -> Sum] /\ l \in Locks
  <2>1. gsum \in [Locks -> Sum] /\ wsum \in [Locks -> Sum]
    BY DEF IInv, TypeInv
  <2>2. RemoveTicket(wsum[l], type[t]) \in Sum
    BY <2>1, <1>3, SumType
  <2> QED BY <2>1, <2>2, <1>3
<1> HIDE DEF l, w
<1>6. /\ gsum' \in [Locks -> Sum] /\ wsum' \in [Locks -> Sum]
      /\ hog' \in [Locks -> 0 .. MaxHog]
      /\ writer' \in [Locks -> Contexts \cup {NoContext}]
      /\ sched' \in [Contexts -> [lock : Locks \cup {NoLock}, i : Nat, skip : BOOLEAN]]
      /\ pc' \in [Contexts -> Places]
      /\ \A x \in Contexts \ {c} : pc'[x] = pc[x] /\ sched'[x] = sched[x]
      /\ \A k \in Locks : \/ writer'[k] = writer[k]
                          \/ {writer[k], writer'[k]} \subseteq {NoContext, c}
      /\ \A k \in Locks : writer'[k] = c =>
           pc'[c] = "reschedule" /\ sched'[c].lock = k
      /\ \/ /\ pc'[c] = "reschedule" /\ sched'[c] # NoSched /\ sched'[c].i # 0
            /\ sched'[c].lock \in Locks /\ writer'[sched'[c].lock] = c
         \/ pc'[c] = Resting(todo'[c]) /\ sched'[c] = NoSched
      /\ \A k \in Locks : \/ gsum'[k] = gsum[k]
                          \/ gsum'[k] = EmptySum /\ granted'[k] = {}
  BY <1>1, <1>4, <1>5, LeaveFacts
<1>7. /\ type' \in [Tickets -> Types \cup {"free"}]
      /\ lockof' \in [Tickets -> Locks \cup {NoLock}]
      /\ dur' \in [Tickets -> AllDurations]
      /\ type'[t] = "free"
      /\ \A u \in Tickets \ {t} :
           /\ type'[u] = type[u] /\ lockof'[u] = lockof[u] /\ dur'[u] = dur[u]
  BY <1>4, DestroyFacts
<1>8. /\ todo'[c] \in Seq(Tickets) /\ IsInjective(todo'[c])
      /\ \A u : Contains(todo'[c], u) => u \in Tickets /\ Ctx(u) = c /\ Listed(u)
  BY <1>4, FailReleases
<1> USE Basics
<1>9. /\ want' \in [Contexts -> SUBSET Request]
      /\ mine' \in [Contexts -> MaybeTicket]
      /\ svp' \in [Contexts -> [stmt : MaybeTicket, trans : MaybeTicket,
                                held : SUBSET Tickets]]
      /\ upgrade' \in [Contexts -> [ticket : MaybeTicket, type : Types \cup {"free"}]]
      /\ todo' \in [Contexts -> Seq(Tickets)]
      /\ \A x \in Contexts \ {c} :
           /\ want'[x] = want[x] /\ svp'[x] = svp[x] /\ mine'[x] = mine[x]
           /\ upgrade'[x] = upgrade[x] /\ todo'[x] = todo[x]
      /\ mine'[c] = NoTicket /\ upgrade'[c] = NoUpgrade
  <2>1. /\ want \in [Contexts -> SUBSET Request]
        /\ mine \in [Contexts -> MaybeTicket]
        /\ todo \in [Contexts -> Seq(Tickets)]
    BY DEF IInv, TypeInv
  <2>2. svp \in [Contexts -> [stmt : MaybeTicket, trans : MaybeTicket,
                              held : SUBSET Tickets]]
    BY DEF IInv, TypeInv
  <2>3. upgrade \in [Contexts -> [ticket : MaybeTicket, type : Types \cup {"free"}]]
    BY DEF IInv, TypeInv
  <2>4. /\ want' \in [Contexts -> SUBSET Request]
        /\ mine' \in [Contexts -> MaybeTicket]
        /\ \A x \in Contexts \ {c} : want'[x] = want[x] /\ mine'[x] = mine[x]
        /\ mine'[c] = NoTicket
    BY <2>1, <1>4 DEF Fail, MaybeTicket
  <2>5. /\ todo' \in [Contexts -> Seq(Tickets)]
        /\ \A x \in Contexts \ {c} : todo'[x] = todo[x]
    BY <2>1, <1>4, <1>8 DEF Fail
  <2>6. /\ svp' \in [Contexts -> [stmt : MaybeTicket, trans : MaybeTicket,
                                  held : SUBSET Tickets]]
        /\ \A x \in Contexts \ {c} : svp'[x] = svp[x]
    BY <2>2, <1>4 DEF Fail, MaybeTicket, NoSavepoint
  <2>7. /\ upgrade' \in [Contexts -> [ticket : MaybeTicket, type : Types \cup {"free"}]]
        /\ \A x \in Contexts \ {c} : upgrade'[x] = upgrade[x]
        /\ upgrade'[c] = NoUpgrade
    BY <2>3, <1>4 DEF Fail, MaybeTicket, NoUpgrade
  <2> QED BY <2>4, <2>5, <2>6, <2>7
<1>10. /\ granted' \in [Locks -> SUBSET Tickets]
       /\ \A k \in Locks : granted'[k] = IF k = l THEN granted[k] \ {t} ELSE granted[k]
  <2>1. granted \in [Locks -> SUBSET Tickets]
    BY DEF IInv, TypeInv
  <2> QED BY <2>1, <1>4, <1>5
<1>11. /\ waiting' \in [Locks -> Seq(Tickets)]
       /\ \A k \in Locks : IsInjective(waiting'[k])
       /\ \A k \in Locks, u \in Tickets : Contains(waiting'[k], u) <=>
            Contains(waiting[k], u) /\ ~(k = l /\ u = t)
  <2>1. /\ waiting \in [Locks -> Seq(Tickets)]
        /\ \A k \in Locks : IsInjective(waiting[k])
    BY DEF IInv, TypeInv, WaitingRight
  <2>2. /\ RemoveFirst(waiting[l], t) \in Seq(Tickets)
        /\ IsInjective(RemoveFirst(waiting[l], t))
        /\ \A u : Contains(RemoveFirst(waiting[l], t), u) <=>
                    Contains(waiting[l], u) /\ u # t
    BY <2>1, <1>5, RemoveList
  <2>3. \A k \in Locks : waiting'[k] = IF k = l THEN RemoveFirst(waiting[k], t)
                                       ELSE waiting[k]
    BY <2>1, <1>4
  <2>4. waiting' \in [Locks -> Seq(Tickets)]
    BY <2>1, <2>2, <1>4
  <2> QED BY <2>1, <2>2, <2>3, <2>4
<1>12. TypeInv'
  BY <1>4, <1>6, <1>7, <1>9, <1>10, <1>11 DEF IInv, TypeInv, waitVars
<1>13. Control(c)
  BY DEF IInv, ControlRight
<1>14. OthersStep(c)
  <2>1. \A x \in Contexts : victim[x] # c
    BY <1>1, <1>13, NotVictim DEF Control
  <2> QED BY <2>1, <1>3, <1>4, <1>6, <1>7, <1>9, <1>10, <1>11 DEF OthersStep, waitVars
<1>15. ASSUME NEW u \in Tickets, Ctx(u) = c, Listed(u) PROVE u # t /\ Listed(u)'
  <2>1. dur[u] \in AllDurations
    BY DEF IInv, TypeInv
  <2>2. u # t
    BY <1>15, <2>1, <1>3 DEF Listed
  <2> QED BY <1>15, <2>1, <2>2, <1>4, <1>7 DEF Listed
<1>16. OwnRight(c)'
  <2>1. Control(c)'
    BY <1>1, <1>13, <1>4, <1>6, <1>9 DEF Control, Resting, waitVars
  <2>2. \A k \in Locks : writer'[k] = c => pc'[c] = "reschedule" /\ sched'[c].lock = k
    BY <1>6
  <2>3. ASSUME NEW d \in AllDurations, NEW u \in Tickets,
               Contains(m_tickets'[c][d], u)
        PROVE  /\ Ctx(u) = c /\ dur'[u] = d
               /\ type'[u] # "free" /\ u \in granted'[lockof'[u]]
    <3>1. Contains(m_tickets[c][d], u) /\ u # t
      BY <2>3, <1>3, <1>4
    <3>2. /\ Ctx(u) = c /\ dur[u] = d
          /\ type[u] # "free" /\ u \in granted[lockof[u]]
      BY <3>1 DEF IInv, ListsRight
    <3>3. lockof[u] \in Locks
      BY <3>2 DEF IInv, TicketsRight
    <3> QED BY <3>1, <3>2, <3>3, <1>7, <1>10
  <2>4. ASSUME NEW u \in Tickets, Ctx(u) = c, type'[u] # "free"
        PROVE  lockof'[u] \in Locks /\ Listed(u)'
    <3>1. u # t
      BY <2>4, <1>7
    <3>2. lockof[u] \in Locks /\ (Listed(u) \/ IsPending(u))
      BY <2>4, <3>1, <1>7 DEF IInv, TicketsRight
    <3>3. ~IsPending(u)
      BY <2>4, <3>1, <1>2 DEF IsPending
    <3> QED BY <2>4, <3>1, <3>2, <3>3, <1>7, <1>15
  <2>5. ASSUME NEW k \in Locks, NEW u \in Tickets, u \in granted'[k]
        PROVE  lockof'[u] = k /\ type'[u] # "free"
    <3>1. u \in granted[k] /\ lockof[u] = k /\ type[u] # "free"
      BY <2>5, <1>10 DEF IInv, GrantedRight
    <3>2. u # t
      BY <2>5, <3>1, <1>10 DEF l
    <3> QED BY <3>1, <3>2, <1>7
  <2>6. ASSUME NEW k \in Locks, NEW u \in Tickets, Ctx(u) = c,
               Contains(waiting'[k], u)
        PROVE  FALSE
    <3>1. lockof[u] = k /\ IsPending(u) /\ ~(k = l /\ u = t)
      BY <2>6, <1>11 DEF IInv, WaitingRight
    <3>2. u = t
      BY <2>6, <3>1, <1>2 DEF IsPending
    <3> QED BY <3>1, <3>2 DEF l
  <2>7. pc'[c] \notin {"acquire"} \cup Pending
    BY <1>6 DEF Pending, Resting
  <2>8. TodoRight(c)'
    BY <1>8, <1>15 DEF TodoRight
  <2>9. \A d \in AllDurations : IsInjective(m_tickets'[c][d])
    BY <1>4 DEF IInv, ListsRight
  <2> QED BY <2>1, <2>2, <2>3, <2>4, <2>5, <2>6, <2>7, <2>8, <2>9, <1>9
       DEF OwnRight
<1>17. GrantedCovered'
  <2> SUFFICES ASSUME NEW k \in Locks PROVE Covers(gsum'[k], granted'[k], type')
    BY DEF GrantedCovered
  <2>1. /\ gsum[k] \in Sum /\ Covers(gsum[k], granted[k], type)
        /\ granted[k] \subseteq Tickets
    BY DEF IInv, TypeInv, GrantedCovered
  <2>2. Covers(gsum[k], granted'[k], type)
    <3>1. Covers(gsum[k], granted[k] \ {t}, type)
      BY <2>1, CoversShrink
    <3> QED BY <2>1, <3>1, <1>10
  <2>3. \A u \in granted'[k] : type'[u] = type[u]
    <3>1. t \notin granted'[k]
      BY <1>10 DEF IInv, GrantedRight, l
    <3> QED BY <2>1, <3>1, <1>7, <1>10
  <2>4. Covers(gsum[k], granted'[k], type')
    BY <2>2, <2>3, CoversFrame
  <2>5. Covers(EmptySum, {}, type')
    BY EmptySummary
  <2>6. gsum'[k] = gsum[k] \/ (gsum'[k] = EmptySum /\ granted'[k] = {})
    BY <1>6
  <2> QED BY <2>4, <2>5, <2>6
<1>18. GrantedCompatible'
  <2>1. \A k \in Locks : \A u \in granted'[k] : u \in granted[k] /\ type'[u] = type[u]
    <3> SUFFICES ASSUME NEW k \in Locks, NEW u \in granted'[k]
                 PROVE  u \in granted[k] /\ type'[u] = type[u]
      OBVIOUS
    <3>1. u \in granted[k] /\ u \in Tickets
      BY <1>10
    <3>2. u # t
      BY <3>1, <1>10 DEF IInv, GrantedRight, l
    <3> QED BY <3>1, <3>2, <1>7
  <2> QED BY <2>1, FewerCompatible
<1> QED BY <1>11, <1>12, <1>14, <1>16, <1>17, <1>18, OwnStep

(* release_lock() of the next ticket to go.                                *)
LEMMA ReleaseLockStep ==
  ASSUME IInv, NEW c \in Contexts, ReleaseLock(c)
  PROVE  IInv'
<1>0. pc[c] = "release" /\ Control(c)
  BY DEF ReleaseLock, IInv, ControlRight
<1>1. todo[c] \in Seq(Tickets) /\ todo[c] # <<>> /\ IsInjective(todo[c])
      /\ \A u \in Tickets : Contains(todo[c], u) => Ctx(u) = c /\ Listed(u)
  BY <1>0 DEF Control, IInv, TypeInv, TodosRight, TodoRight
<1>2. /\ Tail(todo[c]) \in Seq(Tickets) /\ IsInjective(Tail(todo[c]))
      /\ Head(todo[c]) \in Tickets /\ Contains(todo[c], Head(todo[c]))
      /\ \A u : Contains(Tail(todo[c]), u) <=> Contains(todo[c], u) /\ u # Head(todo[c])
  BY <1>1, TailList
<1>3. PICK t \in Tickets : t = Head(todo[c])
  BY <1>2
<1> DEFINE l == lockof[t]
           g == [gsum EXCEPT ![l] = RemoveTicket(@, type[t])]
<1>4. /\ Ctx(t) = c /\ Listed(t) /\ l \in Locks /\ type[t] \in Types
      /\ t \in granted[l]
  <2>1. Ctx(t) = c /\ Listed(t) /\ dur[t] \in AllDurations
    BY <1>1, <1>2, <1>3 DEF IInv, TypeInv
  <2>2. t \in Held(c)
    BY <2>1 DEF Held, Listed
  <2> QED BY <2>1, <2>2, HeldFacts
<1>5. /\ writer[l] = NoContext
      /\ granted' = [granted EXCEPT ![l] = @ \ {t}]
      /\ m_tickets' = [m_tickets EXCEPT ![c] =
                         [d \in AllDurations |-> RemoveFirst(@[d], t)]]
      /\ todo' = [todo EXCEPT ![c] = Tail(@)]
      /\ Destroy(t)
      /\ waiting' = waiting
      /\ LeaveNew(c, l, g, wsum) \/ LeaveRecycled(c, l, g, wsum)
           \/ BeginReschedule(c, l, g, wsum)
      /\ UNCHANGED <<waitVars, want, svp, mine, upgrade>>
  BY <1>3 DEF ReleaseLock
<1>6. /\ g \in [Locks -> Sum] /\ wsum \in [Locks -> Sum]
      /\ \A k \in Locks : g[k] = IF k = l THEN RemoveTicket(gsum[k], type[t])
                                 ELSE gsum[k]
  <2>1. gsum \in [Locks -> Sum] /\ wsum \in [Locks -> Sum]
    BY DEF IInv, TypeInv
  <2>2. RemoveTicket(gsum[l], type[t]) \in Sum
    BY <2>1, <1>4, SumType
  <2> QED BY <2>1, <2>2, <1>4
<1> HIDE DEF l, g
<1>7. /\ gsum' \in [Locks -> Sum] /\ wsum' \in [Locks -> Sum]
      /\ hog' \in [Locks -> 0 .. MaxHog]
      /\ writer' \in [Locks -> Contexts \cup {NoContext}]
      /\ sched' \in [Contexts -> [lock : Locks \cup {NoLock}, i : Nat, skip : BOOLEAN]]
      /\ pc' \in [Contexts -> Places]
      /\ \A x \in Contexts \ {c} : pc'[x] = pc[x] /\ sched'[x] = sched[x]
      /\ \A k \in Locks : \/ writer'[k] = writer[k]
                          \/ {writer[k], writer'[k]} \subseteq {NoContext, c}
      /\ \A k \in Locks : writer'[k] = c =>
           pc'[c] = "reschedule" /\ sched'[c].lock = k
      /\ \/ /\ pc'[c] = "reschedule" /\ sched'[c] # NoSched /\ sched'[c].i # 0
            /\ sched'[c].lock \in Locks /\ writer'[sched'[c].lock] = c
         \/ pc'[c] = Resting(todo'[c]) /\ sched'[c] = NoSched
      /\ \A k \in Locks : \/ gsum'[k] = g[k]
                          \/ gsum'[k] = EmptySum /\ granted'[k] = {}
  BY <1>0, <1>4, <1>5, <1>6, LeaveFacts
<1>8. /\ type' \in [Tickets -> Types \cup {"free"}]
      /\ lockof' \in [Tickets -> Locks \cup {NoLock}]
      /\ dur' \in [Tickets -> AllDurations]
      /\ type'[t] = "free"
      /\ \A u \in Tickets \ {t} :
           /\ type'[u] = type[u] /\ lockof'[u] = lockof[u] /\ dur'[u] = dur[u]
  BY <1>5, DestroyFacts
<1> USE Basics
<1>9. /\ todo' \in [Contexts -> Seq(Tickets)]
      /\ \A x \in Contexts \ {c} : todo'[x] = todo[x]
      /\ todo'[c] = Tail(todo[c])
  <2>1. todo \in [Contexts -> Seq(Tickets)]
    BY DEF IInv, TypeInv
  <2> QED BY <2>1, <1>2, <1>5
<1>10. /\ granted' \in [Locks -> SUBSET Tickets]
       /\ \A k \in Locks : granted'[k] = IF k = l THEN granted[k] \ {t} ELSE granted[k]
  <2>1. granted \in [Locks -> SUBSET Tickets]
    BY DEF IInv, TypeInv
  <2> QED BY <2>1, <1>4, <1>5
<1>11. /\ m_tickets' \in [Contexts -> [AllDurations -> Seq(Tickets)]]
       /\ \A x \in Contexts \ {c} : m_tickets'[x] = m_tickets[x]
       /\ \A d \in AllDurations : IsInjective(m_tickets'[c][d])
       /\ \A d \in AllDurations, u \in Tickets : Contains(m_tickets'[c][d], u) <=>
            Contains(m_tickets[c][d], u) /\ u # t
  <2>1. /\ m_tickets \in [Contexts -> [AllDurations -> Seq(Tickets)]]
        /\ \A d \in AllDurations :
             m_tickets[c][d] \in Seq(Tickets) /\ IsInjective(m_tickets[c][d])
    BY DEF IInv, TypeInv, ListsRight
  <2>2. \A d \in AllDurations :
          /\ RemoveFirst(m_tickets[c][d], t) \in Seq(Tickets)
          /\ IsInjective(RemoveFirst(m_tickets[c][d], t))
          /\ \A u : Contains(RemoveFirst(m_tickets[c][d], t), u) <=>
                      Contains(m_tickets[c][d], u) /\ u # t
    BY <2>1, RemoveList
  <2> DEFINE r == [d \in AllDurations |-> RemoveFirst(m_tickets[c][d], t)]
  <2>3. r \in [AllDurations -> Seq(Tickets)]
    BY <2>2
  <2>4. \A d \in AllDurations : r[d] = RemoveFirst(m_tickets[c][d], t)
    OBVIOUS
  <2>5. m_tickets' = [m_tickets EXCEPT ![c] = r]
    BY <1>5
  <2> HIDE DEF r
  <2>6. /\ m_tickets' \in [Contexts -> [AllDurations -> Seq(Tickets)]]
        /\ \A x \in Contexts \ {c} : m_tickets'[x] = m_tickets[x]
        /\ m_tickets'[c] = r
    BY <2>1, <2>3, <2>5
  <2> QED BY <2>2, <2>4, <2>6
<1>12. TypeInv'
  BY <1>5, <1>7, <1>8, <1>9, <1>10, <1>11 DEF IInv, TypeInv, waitVars
<1>13. OthersStep(c)
  <2>1. \A x \in Contexts : victim[x] # c
    BY <1>0, NotVictim DEF Control
  <2> QED BY <2>1, <1>4, <1>5, <1>7, <1>8, <1>9, <1>10, <1>11 DEF OthersStep, waitVars
<1>14. ASSUME NEW u \in Tickets, u # t, Ctx(u) = c, Listed(u) PROVE Listed(u)'
  <2>1. dur[u] \in AllDurations
    BY DEF IInv, TypeInv
  <2> QED BY <1>14, <2>1, <1>8, <1>11 DEF Listed
<1>15. \A u \in Tickets : Ctx(u) = c => ~IsPending(u)
  BY <1>0 DEF IsPending, Pending
<1>16. OwnRight(c)'
  <2>1. Control(c)'
    BY <1>0, <1>5, <1>7 DEF Control, Resting, waitVars, Pending
  <2>2. \A k \in Locks : writer'[k] = c => pc'[c] = "reschedule" /\ sched'[c].lock = k
    BY <1>7
  <2>3. ASSUME NEW d \in AllDurations, NEW u \in Tickets,
               Contains(m_tickets'[c][d], u)
        PROVE  /\ Ctx(u) = c /\ dur'[u] = d
               /\ type'[u] # "free" /\ u \in granted'[lockof'[u]]
    <3>1. Contains(m_tickets[c][d], u) /\ u # t
      BY <2>3, <1>11
    <3>2. /\ Ctx(u) = c /\ dur[u] = d
          /\ type[u] # "free" /\ u \in granted[lockof[u]]
      BY <3>1 DEF IInv, ListsRight
    <3>3. lockof[u] \in Locks
      BY <3>2 DEF IInv, TicketsRight
    <3> QED BY <3>1, <3>2, <3>3, <1>8, <1>10
  <2>4. ASSUME NEW u \in Tickets, Ctx(u) = c, type'[u] # "free"
        PROVE  lockof'[u] \in Locks /\ Listed(u)'
    <3>1. u # t
      BY <2>4, <1>8
    <3>2. lockof[u] \in Locks /\ Listed(u)
      BY <2>4, <3>1, <1>8, <1>15 DEF IInv, TicketsRight
    <3> QED BY <2>4, <3>1, <3>2, <1>8, <1>14
  <2>5. ASSUME NEW k \in Locks, NEW u \in Tickets, u \in granted'[k]
        PROVE  lockof'[u] = k /\ type'[u] # "free"
    <3>1. u \in granted[k] /\ lockof[u] = k /\ type[u] # "free"
      BY <2>5, <1>10 DEF IInv, GrantedRight
    <3>2. u # t
      BY <2>5, <3>1, <1>10 DEF l
    <3> QED BY <3>1, <3>2, <1>8
  <2>6. \A k \in Locks, u \in Tickets : Ctx(u) = c => ~Contains(waiting'[k], u)
    BY <1>5, <1>15 DEF IInv, WaitingRight
  <2>7. pc'[c] \notin {"acquire"} \cup Pending
    BY <1>7 DEF Pending, Resting
  <2>8. TodoRight(c)'
    BY <1>1, <1>2, <1>3, <1>9, <1>14 DEF TodoRight
  <2>9. upgrade'[c] = NoUpgrade
    BY <1>0, <1>5 DEF Control, Pending
  <2> QED BY <2>1, <2>2, <2>3, <2>4, <2>5, <2>6, <2>7, <2>8, <2>9, <1>11
       DEF OwnRight
<1>17. \A k \in Locks : \A u \in granted'[k] : u \in granted[k] /\ type'[u] = type[u]
  <2> SUFFICES ASSUME NEW k \in Locks, NEW u \in granted'[k]
               PROVE  u \in granted[k] /\ type'[u] = type[u]
    OBVIOUS
  <2>1. u \in granted[k] /\ u \in Tickets
    BY <1>10
  <2>2. u # t
    BY <2>1, <1>10 DEF IInv, GrantedRight, l
  <2> QED BY <2>1, <2>2, <1>8
<1>18. GrantedCovered'
  <2> SUFFICES ASSUME NEW k \in Locks PROVE Covers(gsum'[k], granted'[k], type')
    BY DEF GrantedCovered
  <2>1. gsum[k] \in Sum /\ Covers(gsum[k], granted[k], type)
    BY DEF IInv, TypeInv, GrantedCovered
  <2>2. Covers(g[k], granted'[k], type)
    <3>1. CASE k = l
      <4>1. Covers(RemoveTicket(gsum[k], type[t]), granted[k] \ {t}, type)
        BY <2>1, <3>1, <1>4, CoversRemove
      <4> QED BY <3>1, <4>1, <1>6, <1>10
    <3>2. CASE k # l
      BY <2>1, <3>2, <1>6, <1>10
    <3> QED BY <3>1, <3>2
  <2>3. Covers(g[k], granted'[k], type')
    BY <2>2, <1>17, CoversFrame
  <2>4. Covers(EmptySum, {}, type')
    BY EmptySummary
  <2>5. gsum'[k] = g[k] \/ (gsum'[k] = EmptySum /\ granted'[k] = {})
    BY <1>7
  <2> QED BY <2>3, <2>4, <2>5
<1>19. GrantedCompatible'
  BY <1>17, FewerCompatible
<1>20. \A k \in Locks : IsInjective(waiting'[k])
  BY <1>5 DEF IInv, WaitingRight
<1> QED BY <1>12, <1>13, <1>16, <1>18, <1>19, <1>20, OwnStep

(* A ticket t of a list changes its type from z to y.                      *)
LEMMA RetypeCovers ==
  ASSUME NEW s \in Sum, NEW G, NEW f, NEW h, NEW t \in G,
         NEW z \in Types, NEW y \in Types,
         Covers(s, G, f), f[t] = z, h[t] = y, \A u \in G \ {t} : h[u] = f[u]
  PROVE  Covers(AddTicket(RemoveTicket(s, z), y), G, h)
<1>1. RemoveTicket(s, z) \in Sum
  BY SumType
<1>2. Covers(RemoveTicket(s, z), G \ {t}, f)
  BY CoversRemove
<1>3. Covers(RemoveTicket(s, z), G \ {t}, h)
  BY <1>2, CoversFrame
<1> DEFINE r == RemoveTicket(s, z)
           H == G \ {t}
<1>4. t \notin H /\ H \cup {t} = G
  OBVIOUS
<1> HIDE DEF r, H
<1>5. r \in Sum /\ Covers(r, H, h)
  BY <1>1, <1>3 DEF r, H
<1>6. Covers(AddTicket(r, y), H \cup {t}, h)
  BY <1>4, <1>5, CoversAdd
<1> QED BY <1>4, <1>6 DEF r

(* A granted ticket t of l changes its type to one that nobody else's      *)
(* granted tickets exclude.                                                *)
LEMMA RetypedCompatible ==
  ASSUME IInv, TypeInv', NEW l \in Locks, NEW t \in Tickets, type'[t] \in Types,
         \A k \in Locks : granted'[k] \subseteq granted[k],
         t \in granted[l],
         \A k \in Locks : \A u \in granted'[k] : u # t => type'[u] = type[u],
         \A u \in granted[l] : Ctx(u) # Ctx(t) => type[u] \notin Incompatible(l, type'[t])
  PROVE  GrantedCompatible'
<1> SUFFICES ASSUME NEW k \in Locks, NEW u \in granted'[k], NEW v \in granted'[k],
                    Ctx(u) # Ctx(v)
             PROVE  type'[v] \notin Incompatible(k, type'[u])
  BY DEF GrantedCompatible
<1>1. /\ u \in granted[k] /\ v \in granted[k] /\ u # v
      /\ type[v] \notin Incompatible(k, type[u])
  BY DEF IInv, GrantedCompatible
<1>2. t \in granted[k] => k = l
  BY DEF IInv, GrantedRight
<1>3. CASE u # t /\ v # t
  BY <1>1, <1>3
<1>4. CASE u = t
  BY <1>1, <1>2, <1>4
<1>5. CASE v = t
  <2>1. type[u] \notin Incompatible(l, type'[t]) /\ type'[u] = type[u] /\ k = l
    BY <1>1, <1>2, <1>5
  <2>2. type[u] \in Types
    <3>1. u \in Tickets
      BY <1>1 DEF IInv, TypeInv
    <3>2. type[u] # "free"
      BY <1>1 DEF IInv, GrantedRight
    <3> QED BY <3>1, <3>2 DEF IInv, TypeInv
  <2> QED BY <2>1, <2>2, <1>5, IncompatibleSymmetric
<1> QED BY <1>3, <1>4, <1>5

(* downgrade_lock()                                                        *)
LEMMA DowngradeStep ==
  ASSUME IInv, NEW c \in Contexts, NEW t \in Tickets, NEW y \in DowngradeTo,
         Downgrade(c, t, y)
  PROVE  IInv'
<1> DEFINE l == lockof[t]
           g == [gsum EXCEPT ![l] = AddTicket(RemoveTicket(@, type[t]), y)]
<1>0. pc[c] = "idle" /\ Control(c)
  BY DEF Downgrade, IInv, ControlRight
<1>1. /\ y \in Types /\ Ctx(t) = c /\ l \in Locks /\ type[t] \in Types
      /\ t \in granted[l]
  BY HeldFacts, MdlAssumption DEF Downgrade
<1>2. /\ StrongerOrEqual(Strategy[l], type[t], y) /\ writer[l] = NoContext
      /\ type' = [type EXCEPT ![t] = y]
      /\ UNCHANGED <<granted, waiting, todo>>
      /\ BeginReschedule(c, l, g, wsum)
      /\ UNCHANGED <<lockof, dur, waitVars, m_tickets, want, svp, mine, upgrade>>
  BY DEF Downgrade
<1>3. /\ g \in [Locks -> Sum] /\ wsum \in [Locks -> Sum]
      /\ \A k \in Locks :
           g[k] = IF k = l THEN AddTicket(RemoveTicket(gsum[k], type[t]), y)
                  ELSE gsum[k]
  <2>1. gsum \in [Locks -> Sum] /\ wsum \in [Locks -> Sum]
    BY DEF IInv, TypeInv
  <2>2. RemoveTicket(gsum[l], type[t]) \in Sum
    BY <2>1, <1>1, SumType
  <2>3. AddTicket(RemoveTicket(gsum[l], type[t]), y) \in Sum
    BY <2>2, <1>1, SumType
  <2> QED BY <2>1, <2>3, <1>1
<1> HIDE DEF l, g
<1>4. /\ gsum' \in [Locks -> Sum] /\ wsum' \in [Locks -> Sum]
      /\ hog' \in [Locks -> 0 .. MaxHog]
      /\ writer' \in [Locks -> Contexts \cup {NoContext}]
      /\ sched' \in [Contexts -> [lock : Locks \cup {NoLock}, i : Nat, skip : BOOLEAN]]
      /\ pc' \in [Contexts -> Places]
      /\ \A x \in Contexts \ {c} : pc'[x] = pc[x] /\ sched'[x] = sched[x]
      /\ \A k \in Locks : \/ writer'[k] = writer[k]
                          \/ {writer[k], writer'[k]} \subseteq {NoContext, c}
      /\ \A k \in Locks : writer'[k] = c =>
           pc'[c] = "reschedule" /\ sched'[c].lock = k
      /\ \/ /\ pc'[c] = "reschedule" /\ sched'[c] # NoSched /\ sched'[c].i # 0
            /\ sched'[c].lock \in Locks /\ writer'[sched'[c].lock] = c
         \/ pc'[c] = Resting(todo'[c]) /\ sched'[c] = NoSched
  BY <1>0, <1>1, <1>2, <1>3, LeaveFacts
<1> USE Basics
<1>5. /\ type' \in [Tickets -> Types \cup {"free"}]
      /\ \A u \in Tickets : type'[u] = IF u = t THEN y ELSE type[u]
  <2>1. type \in [Tickets -> Types \cup {"free"}]
    BY DEF IInv, TypeInv
  <2> QED BY <2>1, <1>1, <1>2
<1>6. TypeInv'
  BY <1>2, <1>4, <1>5 DEF IInv, TypeInv, waitVars
<1>7. OthersStep(c)
  <2>1. \A x \in Contexts : victim[x] # c
    BY <1>0, NotVictim DEF Control
  <2> QED BY <2>1, <1>1, <1>2, <1>4, <1>5 DEF OthersStep, waitVars
<1>8. \A u \in Tickets : (type'[u] = "free" <=> type[u] = "free") /\ Listed(u)' = Listed(u)
  BY <1>1, <1>2, <1>5 DEF Listed
<1>9. todo[c] = <<>> /\ upgrade[c] = NoUpgrade /\ \A u \in Tickets : Ctx(u) = c => ~IsPending(u)
  BY <1>0 DEF Control, IsPending, Pending
<1>10. OwnRight(c)'
  <2>1. Control(c)'
    BY <1>0, <1>2, <1>4 DEF Control, Resting, waitVars, Pending
  <2>2. \A k \in Locks : writer'[k] = c => pc'[c] = "reschedule" /\ sched'[c].lock = k
    BY <1>4
  <2>3. ASSUME NEW d \in AllDurations, NEW u \in Tickets,
               Contains(m_tickets'[c][d], u)
        PROVE  /\ Ctx(u) = c /\ dur'[u] = d
               /\ type'[u] # "free" /\ u \in granted'[lockof'[u]]
    BY <2>3, <1>2, <1>8 DEF IInv, ListsRight
  <2>4. ASSUME NEW u \in Tickets, Ctx(u) = c, type'[u] # "free"
        PROVE  lockof'[u] \in Locks /\ Listed(u)'
    BY <2>4, <1>2, <1>8, <1>9 DEF IInv, TicketsRight
  <2>5. ASSUME NEW k \in Locks, NEW u \in Tickets, u \in granted'[k]
        PROVE  lockof'[u] = k /\ type'[u] # "free"
    BY <2>5, <1>2, <1>8 DEF IInv, GrantedRight
  <2>6. \A k \in Locks, u \in Tickets : Ctx(u) = c => ~Contains(waiting'[k], u)
    BY <1>2, <1>9 DEF IInv, WaitingRight
  <2>7. pc'[c] \notin {"acquire"} \cup Pending
    BY <1>4 DEF Pending, Resting
  <2>8. TodoRight(c)'
    BY <1>2, <1>9, EmptyList DEF TodoRight
  <2>9. upgrade'[c] = NoUpgrade
    BY <1>2, <1>9
  <2>10. \A d \in AllDurations : IsInjective(m_tickets'[c][d])
    BY <1>2 DEF IInv, ListsRight
  <2> QED BY <2>1, <2>2, <2>3, <2>4, <2>5, <2>6, <2>7, <2>8, <2>9, <2>10
       DEF OwnRight
<1>11. GrantedCovered'
  <2> SUFFICES ASSUME NEW k \in Locks PROVE Covers(gsum'[k], granted'[k], type')
    BY DEF GrantedCovered
  <2>1. gsum[k] \in Sum /\ Covers(gsum[k], granted[k], type) /\ granted[k] \subseteq Tickets
    BY DEF IInv, TypeInv, GrantedCovered
  <2>2. gsum'[k] = g[k] /\ granted'[k] = granted[k]
    BY <1>2 DEF BeginReschedule
  <2>3. CASE k = l
    <3>1. type'[t] = y /\ \A u \in granted[k] \ {t} : type'[u] = type[u]
      BY <2>1, <1>5
    <3>2. Covers(AddTicket(RemoveTicket(gsum[k], type[t]), y), granted[k], type')
      BY <2>1, <2>3, <3>1, <1>1, RetypeCovers
    <3> QED BY <2>2, <2>3, <3>2, <1>3
  <2>4. CASE k # l
    <3>1. t \notin granted[k]
      BY <2>4 DEF IInv, GrantedRight, l
    <3>2. \A u \in granted[k] : type'[u] = type[u]
      BY <2>1, <3>1, <1>5
    <3>3. Covers(gsum[k], granted[k], type')
      BY <2>1, <3>2, CoversFrame
    <3> QED BY <2>2, <2>4, <3>3, <1>3
  <2> QED BY <2>3, <2>4
<1>12. GrantedCompatible'
  <2>1. ASSUME NEW u \in granted[l], Ctx(u) # Ctx(t)
        PROVE  type[u] \notin Incompatible(l, y)
    <3>1. type[u] \notin Incompatible(l, type[t])
      BY <2>1, <1>1 DEF IInv, GrantedCompatible
    <3>2. u \in Tickets /\ type[u] # "free"
      BY <1>1 DEF IInv, TypeInv, GrantedRight
    <3>3. type[u] \in Types
      BY <3>2 DEF IInv, TypeInv
    <3> QED BY <3>1, <3>3, <1>1, <1>2, WeakerIsCompatible
  <2>2. type'[t] = y /\ \A u \in Tickets : u # t => type'[u] = type[u]
    BY <1>5
  <2>3. \A k \in Locks : \A u \in granted'[k] : u # t => type'[u] = type[u]
    BY <2>2, <1>6 DEF TypeInv
  <2>4. \A k \in Locks : granted'[k] \subseteq granted[k]
    BY <1>2
  <2> QED BY <2>1, <2>2, <2>3, <2>4, <1>1, <1>6, RetypedCompatible
<1>13. \A k \in Locks : IsInjective(waiting'[k])
  BY <1>2 DEF IInv, WaitingRight
<1> QED BY <1>6, <1>7, <1>10, <1>11, <1>12, <1>13, OwnStep

(* The two tickets of an upgrade whose request was granted: they differ,   *)
(* and what the new one excludes the old one may exclude.                  *)
LEMMA MergeFacts ==
  ASSUME IInv, NEW c \in Contexts, pc[c] = "merge"
  PROVE  /\ mine[c] \in Tickets /\ upgrade[c].ticket \in Tickets
         /\ mine[c] # upgrade[c].ticket /\ upgrade[c].type \in Types
         /\ Ctx(mine[c]) = c /\ Ctx(upgrade[c].ticket) = c
         /\ lockof[upgrade[c].ticket] \in Locks
         /\ lockof[mine[c]] = lockof[upgrade[c].ticket]
         /\ type[mine[c]] \in Types /\ type[upgrade[c].ticket] \in Types
         /\ mine[c] \in granted[lockof[upgrade[c].ticket]]
         /\ upgrade[c].ticket \in granted[lockof[upgrade[c].ticket]]
         /\ dur[mine[c]] = "TRANSACTION" /\ Listed(upgrade[c].ticket)
         /\ \A u \in granted[lockof[upgrade[c].ticket]] : Ctx(u) # c =>
              type[u] \notin Incompatible(lockof[upgrade[c].ticket], upgrade[c].type)
         /\ todo[c] = <<>> /\ waiting_for[c] = NoTicket
         /\ \A u \in Tickets : Ctx(u) = c => ~IsPending(u)
         /\ \A k \in Locks : writer[k] # c
<1> USE Basics
<1>1. Control(c) /\ upgrade[c] # NoUpgrade /\ UpgradeRight(c)
  BY DEF IInv, ControlRight, Control, UpgradesRight
<1>2. mine[c] \in Tickets
  <2>1. mine[c] \in MaybeTicket /\ mine[c] # NoTicket
    BY <1>1 DEF Control, IInv, TypeInv
  <2> QED BY <2>1 DEF MaybeTicket
<1>3. PICK t \in Tickets, o \in Tickets, y \in Types :
        t = mine[c] /\ o = upgrade[c].ticket /\ y = upgrade[c].type
  BY <1>1, <1>2 DEF UpgradeRight
<1>4. /\ Ctx(o) = c /\ Listed(o)
      /\ ~StrongerOrEqual(Strategy[lockof[o]], type[o], y)
      /\ Contains(m_tickets[c]["TRANSACTION"], t)
      /\ lockof[t] = lockof[o]
      /\ StrongerOrEqual(Strategy[lockof[o]], type[t], y)
  BY <1>1, <1>3 DEF UpgradeRight
<1>5. o # t
  BY <1>4
<1>6. t \in Held(c) /\ o \in Held(c)
  <2>1. dur[o] \in AllDurations
    BY DEF IInv, TypeInv
  <2> QED BY <2>1, <1>4 DEF Held, Listed
<1>7. /\ Ctx(t) = c /\ type[t] \in Types /\ t \in granted[lockof[t]]
      /\ type[o] \in Types /\ lockof[o] \in Locks /\ o \in granted[lockof[o]]
  BY <1>6, HeldFacts
<1>8. dur[t] = "TRANSACTION"
  BY <1>4 DEF IInv, ListsRight
<1>9. ASSUME NEW u \in granted[lockof[o]], Ctx(u) # c
      PROVE  type[u] \notin Incompatible(lockof[o], y)
  <2>1. type[u] \notin Incompatible(lockof[o], type[t])
    BY <1>4, <1>7, <1>9 DEF IInv, GrantedCompatible
  <2>2. u \in Tickets /\ type[u] # "free"
    BY <1>7 DEF IInv, TypeInv, GrantedRight
  <2>3. type[u] \in Types
    BY <2>2 DEF IInv, TypeInv
  <2> QED BY <2>1, <2>3, <1>4, <1>7, WeakerIsCompatible
<1>10. /\ todo[c] = <<>> /\ waiting_for[c] = NoTicket
       /\ \A u \in Tickets : Ctx(u) = c => ~IsPending(u)
       /\ \A k \in Locks : writer[k] # c
  BY <1>1 DEF Control, IsPending, Pending, IInv, WriterRight
<1> QED BY <1>3, <1>4, <1>5, <1>7, <1>8, <1>9, <1>10

(* upgrade_shared_lock() returns.                                          *)
LEMMA UpgradeDoneFacts ==
  ASSUME IInv, NEW c \in Contexts, UpgradeDone(c)
  PROVE  /\ pc' \in [Contexts -> Places] /\ mine' \in [Contexts -> MaybeTicket]
         /\ svp' \in [Contexts -> [stmt : MaybeTicket, trans : MaybeTicket,
                                   held : SUBSET Tickets]]
         /\ upgrade' \in [Contexts -> [ticket : MaybeTicket, type : Types \cup {"free"}]]
         /\ \A x \in Contexts \ {c} :
              /\ pc'[x] = pc[x] /\ svp'[x] = svp[x] /\ mine'[x] = mine[x]
              /\ upgrade'[x] = upgrade[x]
         /\ pc'[c] = "idle" /\ mine'[c] = NoTicket /\ upgrade'[c] = NoUpgrade
         /\ waiting' = waiting /\ wsum' = wsum /\ hog' = hog /\ writer' = writer
         /\ waitVars' = waitVars /\ want' = want /\ todo' = todo /\ sched' = sched
<1> USE Basics DEF UpgradeDone
<1>1. pc \in [Contexts -> Places] /\ mine \in [Contexts -> MaybeTicket]
  BY DEF IInv, TypeInv
<1>2. svp \in [Contexts -> [stmt : MaybeTicket, trans : MaybeTicket,
                            held : SUBSET Tickets]]
  BY DEF IInv, TypeInv
<1>3. upgrade \in [Contexts -> [ticket : MaybeTicket, type : Types \cup {"free"}]]
  BY DEF IInv, TypeInv
<1>4. /\ pc' \in [Contexts -> Places] /\ mine' \in [Contexts -> MaybeTicket]
      /\ \A x \in Contexts \ {c} : pc'[x] = pc[x] /\ mine'[x] = mine[x]
      /\ pc'[c] = "idle" /\ mine'[c] = NoTicket
  BY <1>1 DEF Places, MaybeTicket
<1>5. /\ svp' \in [Contexts -> [stmt : MaybeTicket, trans : MaybeTicket,
                                held : SUBSET Tickets]]
      /\ \A x \in Contexts \ {c} : svp'[x] = svp[x]
  BY <1>2 DEF NoSavepoint, MaybeTicket
<1>6. /\ upgrade' \in [Contexts -> [ticket : MaybeTicket, type : Types \cup {"free"}]]
      /\ \A x \in Contexts \ {c} : upgrade'[x] = upgrade[x]
      /\ upgrade'[c] = NoUpgrade
  BY <1>3 DEF NoUpgrade, MaybeTicket
<1> QED BY <1>4, <1>5, <1>6

(* The upgrade ends with a ticket the context had already.                 *)
LEMMA MergeReusedStep ==
  ASSUME IInv, NEW c \in Contexts, MergeReused(c)
  PROVE  IInv'
<1>1. pc[c] = "merge" /\ Control(c)
  BY DEF MergeReused, IInv, ControlRight
<1>2. PICK o \in Tickets, y \in Types, l \in Locks :
        o = upgrade[c].ticket /\ y = upgrade[c].type /\ l = lockof[o]
  BY <1>1, MergeFacts
<1>3. /\ Ctx(o) = c /\ o \in granted[l] /\ type[o] \in Types
      /\ \A u \in granted[l] : Ctx(u) # c => type[u] \notin Incompatible(l, y)
      /\ todo[c] = <<>> /\ waiting_for[c] = NoTicket
      /\ \A u \in Tickets : Ctx(u) = c => ~IsPending(u)
      /\ \A k \in Locks : writer[k] # c
  BY <1>1, <1>2, MergeFacts
<1>4. /\ gsum' = [gsum EXCEPT ![l] = AddTicket(RemoveTicket(@, type[o]), y)]
      /\ type' = [type EXCEPT ![o] = y]
      /\ UNCHANGED <<granted, lockof, dur, m_tickets>>
      /\ UpgradeDone(c)
  BY <1>2 DEF MergeReused
<1>5. /\ pc' \in [Contexts -> Places] /\ mine' \in [Contexts -> MaybeTicket]
      /\ svp' \in [Contexts -> [stmt : MaybeTicket, trans : MaybeTicket,
                                held : SUBSET Tickets]]
      /\ upgrade' \in [Contexts -> [ticket : MaybeTicket, type : Types \cup {"free"}]]
      /\ \A x \in Contexts \ {c} :
           /\ pc'[x] = pc[x] /\ svp'[x] = svp[x] /\ mine'[x] = mine[x]
           /\ upgrade'[x] = upgrade[x]
      /\ pc'[c] = "idle" /\ mine'[c] = NoTicket /\ upgrade'[c] = NoUpgrade
      /\ waiting' = waiting /\ wsum' = wsum /\ hog' = hog /\ writer' = writer
      /\ waitVars' = waitVars /\ want' = want /\ todo' = todo /\ sched' = sched
  BY <1>4, UpgradeDoneFacts
<1> USE Basics
<1>6. /\ gsum' \in [Locks -> Sum]
      /\ \A k \in Locks :
           gsum'[k] = IF k = l THEN AddTicket(RemoveTicket(gsum[k], type[o]), y)
                      ELSE gsum[k]
  <2>1. gsum \in [Locks -> Sum]
    BY DEF IInv, TypeInv
  <2>2. RemoveTicket(gsum[l], type[o]) \in Sum
    BY <2>1, <1>3, SumType
  <2>3. AddTicket(RemoveTicket(gsum[l], type[o]), y) \in Sum
    BY <2>2, SumType
  <2> QED BY <2>1, <2>3, <1>4
<1>7. /\ type' \in [Tickets -> Types \cup {"free"}]
      /\ \A u \in Tickets : type'[u] = IF u = o THEN y ELSE type[u]
  <2>1. type \in [Tickets -> Types \cup {"free"}]
    BY DEF IInv, TypeInv
  <2> QED BY <2>1, <1>4
<1>8. TypeInv'
  BY <1>4, <1>5, <1>6, <1>7 DEF IInv, TypeInv, waitVars
<1>9. OthersStep(c)
  <2>1. \A x \in Contexts : victim[x] # c
    BY <1>3, NotVictim
  <2> QED BY <2>1, <1>3, <1>4, <1>5, <1>7 DEF OthersStep, waitVars
<1>10. \A u \in Tickets : (type'[u] = "free" <=> type[u] = "free") /\ Listed(u)' = Listed(u)
  BY <1>3, <1>4, <1>7 DEF Listed
<1>11. OwnRight(c)'
  <2>1. Control(c)'
    BY <1>1, <1>3, <1>5 DEF Control, waitVars, Pending
  <2>2. \A k \in Locks : writer'[k] # c
    BY <1>3, <1>5
  <2>3. ASSUME NEW d \in AllDurations, NEW u \in Tickets,
               Contains(m_tickets'[c][d], u)
        PROVE  /\ Ctx(u) = c /\ dur'[u] = d
               /\ type'[u] # "free" /\ u \in granted'[lockof'[u]]
    BY <2>3, <1>4, <1>10 DEF IInv, ListsRight
  <2>4. ASSUME NEW u \in Tickets, Ctx(u) = c, type'[u] # "free"
        PROVE  lockof'[u] \in Locks /\ Listed(u)'
    BY <2>4, <1>3, <1>4, <1>10 DEF IInv, TicketsRight
  <2>5. ASSUME NEW k \in Locks, NEW u \in Tickets, u \in granted'[k]
        PROVE  lockof'[u] = k /\ type'[u] # "free"
    BY <2>5, <1>4, <1>10 DEF IInv, GrantedRight
  <2>6. \A k \in Locks, u \in Tickets : Ctx(u) = c => ~Contains(waiting'[k], u)
    BY <1>3, <1>5 DEF IInv, WaitingRight
  <2>7. pc'[c] \notin {"acquire"} \cup Pending
    BY <1>5 DEF Pending
  <2>8. TodoRight(c)'
    BY <1>3, <1>5, EmptyList DEF TodoRight
  <2>9. \A d \in AllDurations : IsInjective(m_tickets'[c][d])
    BY <1>4 DEF IInv, ListsRight
  <2> QED BY <2>1, <2>2, <2>3, <2>4, <2>5, <2>6, <2>7, <2>8, <2>9, <1>5
       DEF OwnRight
<1>12. GrantedCovered'
  <2> SUFFICES ASSUME NEW k \in Locks PROVE Covers(gsum'[k], granted[k], type')
    BY <1>4 DEF GrantedCovered
  <2>1. gsum[k] \in Sum /\ Covers(gsum[k], granted[k], type) /\ granted[k] \subseteq Tickets
    BY DEF IInv, TypeInv, GrantedCovered
  <2>2. CASE k = l
    <3>1. type'[o] = y /\ \A u \in granted[k] \ {o} : type'[u] = type[u]
      BY <2>1, <1>7
    <3>2. Covers(AddTicket(RemoveTicket(gsum[k], type[o]), y), granted[k], type')
      BY <2>1, <2>2, <3>1, <1>3, RetypeCovers
    <3> QED BY <2>2, <3>2, <1>6
  <2>3. CASE k # l
    <3>1. o \notin granted[k]
      BY <2>3, <1>2 DEF IInv, GrantedRight
    <3>2. \A u \in granted[k] : type'[u] = type[u]
      BY <2>1, <3>1, <1>7
    <3>3. Covers(gsum[k], granted[k], type')
      BY <2>1, <3>2, CoversFrame
    <3> QED BY <2>3, <3>3, <1>6
  <2> QED BY <2>2, <2>3
<1>13. GrantedCompatible'
  <2>1. type'[o] = y /\ \A u \in Tickets : u # o => type'[u] = type[u]
    BY <1>7
  <2>2. \A k \in Locks : \A u \in granted'[k] : u # o => type'[u] = type[u]
    BY <2>1, <1>8 DEF TypeInv
  <2>3. \A k \in Locks : granted'[k] \subseteq granted[k]
    BY <1>4
  <2> QED BY <2>1, <2>2, <2>3, <1>3, <1>8, RetypedCompatible
<1>14. \A k \in Locks : IsInjective(waiting'[k])
  BY <1>5 DEF IInv, WaitingRight
<1> QED BY <1>8, <1>9, <1>11, <1>12, <1>13, <1>14, OwnStep

(* The upgrade ends with a new ticket, which gives way to the old one.     *)
LEMMA MergeNewStep ==
  ASSUME IInv, NEW c \in Contexts, MergeNew(c)
  PROVE  IInv'
<1>1. pc[c] = "merge" /\ Control(c)
  BY DEF MergeNew, IInv, ControlRight
<1>2. PICK t \in Tickets, o \in Tickets, y \in Types, l \in Locks :
        t = mine[c] /\ o = upgrade[c].ticket /\ y = upgrade[c].type /\ l = lockof[o]
  BY <1>1, MergeFacts
<1>3. /\ t # o /\ Ctx(t) = c /\ Ctx(o) = c /\ lockof[t] = l
      /\ type[t] \in Types /\ type[o] \in Types
      /\ t \in granted[l] /\ o \in granted[l]
      /\ dur[t] = "TRANSACTION" /\ Listed(o)
      /\ \A u \in granted[l] : Ctx(u) # c => type[u] \notin Incompatible(l, y)
      /\ todo[c] = <<>> /\ waiting_for[c] = NoTicket
      /\ \A u \in Tickets : Ctx(u) = c => ~IsPending(u)
      /\ \A k \in Locks : writer[k] # c
  BY <1>1, <1>2, MergeFacts
<1>4. /\ granted' = [granted EXCEPT ![l] = @ \ {t}]
      /\ gsum' = [gsum EXCEPT ![l] =
           AddTicket(RemoveTicket(RemoveTicket(@, type[t]), type[o]), y)]
      /\ type' = [type EXCEPT ![o] = y, ![t] = "free"]
      /\ lockof' = [lockof EXCEPT ![t] = NoLock]
      /\ dur' = [dur EXCEPT ![t] = "TRANSACTION"]
      /\ m_tickets' = [m_tickets EXCEPT ![c]["TRANSACTION"] = RemoveFirst(@, t)]
      /\ UpgradeDone(c)
  BY <1>2 DEF MergeNew
<1>5. /\ pc' \in [Contexts -> Places] /\ mine' \in [Contexts -> MaybeTicket]
      /\ svp' \in [Contexts -> [stmt : MaybeTicket, trans : MaybeTicket,
                                held : SUBSET Tickets]]
      /\ upgrade' \in [Contexts -> [ticket : MaybeTicket, type : Types \cup {"free"}]]
      /\ \A x \in Contexts \ {c} :
           /\ pc'[x] = pc[x] /\ svp'[x] = svp[x] /\ mine'[x] = mine[x]
           /\ upgrade'[x] = upgrade[x]
      /\ pc'[c] = "idle" /\ mine'[c] = NoTicket /\ upgrade'[c] = NoUpgrade
      /\ waiting' = waiting /\ wsum' = wsum /\ hog' = hog /\ writer' = writer
      /\ waitVars' = waitVars /\ want' = want /\ todo' = todo /\ sched' = sched
  BY <1>4, UpgradeDoneFacts
<1> USE Basics
<1>6. /\ gsum' \in [Locks -> Sum]
      /\ \A k \in Locks :
           gsum'[k] = IF k = l
                      THEN AddTicket(RemoveTicket(RemoveTicket(gsum[k], type[t]),
                                                  type[o]), y)
                      ELSE gsum[k]
  <2>1. gsum \in [Locks -> Sum]
    BY DEF IInv, TypeInv
  <2>2. RemoveTicket(gsum[l], type[t]) \in Sum
    BY <2>1, <1>3, SumType
  <2>3. RemoveTicket(RemoveTicket(gsum[l], type[t]), type[o]) \in Sum
    BY <2>2, <1>3, SumType
  <2>4. AddTicket(RemoveTicket(RemoveTicket(gsum[l], type[t]), type[o]), y) \in Sum
    BY <2>3, SumType
  <2> QED BY <2>1, <2>4, <1>4
<1>7. /\ type' \in [Tickets -> Types \cup {"free"}]
      /\ lockof' \in [Tickets -> Locks \cup {NoLock}]
      /\ dur' \in [Tickets -> AllDurations]
      /\ type'[t] = "free" /\ type'[o] = y
      /\ \A u \in Tickets : u # t /\ u # o => type'[u] = type[u]
      /\ \A u \in Tickets : u # t => lockof'[u] = lockof[u] /\ dur'[u] = dur[u]
  <2>1. /\ type \in [Tickets -> Types \cup {"free"}]
        /\ lockof \in [Tickets -> Locks \cup {NoLock}]
        /\ dur \in [Tickets -> AllDurations]
    BY DEF IInv, TypeInv
  <2> QED BY <2>1, <1>3, <1>4
<1>8. /\ granted' \in [Locks -> SUBSET Tickets]
      /\ \A k \in Locks : granted'[k] = IF k = l THEN granted[k] \ {t} ELSE granted[k]
  <2>1. granted \in [Locks -> SUBSET Tickets]
    BY DEF IInv, TypeInv
  <2> QED BY <2>1, <1>4
<1>9. /\ m_tickets' \in [Contexts -> [AllDurations -> Seq(Tickets)]]
      /\ \A x \in Contexts \ {c} : m_tickets'[x] = m_tickets[x]
      /\ \A d \in AllDurations : IsInjective(m_tickets'[c][d])
      /\ \A d \in AllDurations, u \in Tickets : Contains(m_tickets'[c][d], u) <=>
           Contains(m_tickets[c][d], u) /\ u # t
  <2>1. /\ m_tickets \in [Contexts -> [AllDurations -> Seq(Tickets)]]
        /\ \A d \in AllDurations : IsInjective(m_tickets[c][d])
    BY DEF IInv, TypeInv, ListsRight
  <2> DEFINE T == m_tickets[c]["TRANSACTION"]
  <2>2. /\ RemoveFirst(T, t) \in Seq(Tickets) /\ IsInjective(RemoveFirst(T, t))
        /\ \A u : Contains(RemoveFirst(T, t), u) <=> Contains(T, u) /\ u # t
    BY <2>1, RemoveList
  <2>3. \A d \in AllDurations : d # "TRANSACTION" => ~Contains(m_tickets[c][d], t)
    BY <1>3 DEF IInv, ListsRight
  <2>4. /\ m_tickets' \in [Contexts -> [AllDurations -> Seq(Tickets)]]
        /\ \A x \in Contexts \ {c} : m_tickets'[x] = m_tickets[x]
        /\ \A d \in AllDurations :
             m_tickets'[c][d] = IF d = "TRANSACTION" THEN RemoveFirst(T, t)
                                ELSE m_tickets[c][d]
    BY <2>1, <2>2, <1>4
  <2> QED BY <2>1, <2>2, <2>3, <2>4
<1>10. TypeInv'
  BY <1>5, <1>6, <1>7, <1>8, <1>9 DEF IInv, TypeInv, waitVars
<1>11. OthersStep(c)
  <2>1. \A x \in Contexts : victim[x] # c
    BY <1>3, NotVictim
  <2>2. \A u \in Tickets : Ctx(u) # c =>
          /\ type'[u] = type[u] /\ lockof'[u] = lockof[u] /\ dur'[u] = dur[u]
          /\ \A k \in Locks : u \in granted'[k] <=> u \in granted[k]
    BY <1>3, <1>7, <1>8
  <2>3. UNCHANGED <<waiting, writer, status, waiting_for, result, victim>>
    BY <1>5 DEF waitVars
  <2>4. \A x \in Contexts \ {c} :
          /\ pc'[x] = pc[x] /\ want'[x] = want[x] /\ svp'[x] = svp[x]
          /\ mine'[x] = mine[x] /\ upgrade'[x] = upgrade[x]
          /\ todo'[x] = todo[x] /\ sched'[x] = sched[x]
          /\ m_tickets'[x] = m_tickets[x]
    BY <1>5, <1>9
  <2> QED BY <2>1, <2>2, <2>3, <2>4 DEF OthersStep
<1>12. /\ \A u \in Tickets : u # t => (type'[u] = "free" <=> type[u] = "free")
       /\ \A u \in Tickets : u # t /\ Ctx(u) = c /\ Listed(u) => Listed(u)'
  <2>1. dur \in [Tickets -> AllDurations]
    BY DEF IInv, TypeInv
  <2> QED BY <2>1, <1>3, <1>7, <1>9 DEF Listed
<1>13. OwnRight(c)'
  <2>1. Control(c)'
    BY <1>1, <1>3, <1>5 DEF Control, waitVars, Pending
  <2>2. \A k \in Locks : writer'[k] # c
    BY <1>3, <1>5
  <2>3. ASSUME NEW d \in AllDurations, NEW u \in Tickets,
               Contains(m_tickets'[c][d], u)
        PROVE  /\ Ctx(u) = c /\ dur'[u] = d
               /\ type'[u] # "free" /\ u \in granted'[lockof'[u]]
    <3>1. Contains(m_tickets[c][d], u) /\ u # t
      BY <2>3, <1>9
    <3>2. /\ Ctx(u) = c /\ dur[u] = d
          /\ type[u] # "free" /\ u \in granted[lockof[u]]
      BY <3>1 DEF IInv, ListsRight
    <3>3. lockof[u] \in Locks
      BY <3>2 DEF IInv, TicketsRight
    <3> QED BY <3>1, <3>2, <3>3, <1>7, <1>8, <1>12
  <2>4. ASSUME NEW u \in Tickets, Ctx(u) = c, type'[u] # "free"
        PROVE  lockof'[u] \in Locks /\ Listed(u)'
    <3>1. u # t
      BY <2>4, <1>7
    <3>2. lockof[u] \in Locks /\ Listed(u)
      BY <2>4, <3>1, <1>3, <1>12 DEF IInv, TicketsRight
    <3> QED BY <2>4, <3>1, <3>2, <1>7, <1>12
  <2>5. ASSUME NEW k \in Locks, NEW u \in Tickets, u \in granted'[k]
        PROVE  lockof'[u] = k /\ type'[u] # "free"
    <3>1. u \in granted[k] /\ lockof[u] = k /\ type[u] # "free"
      BY <2>5, <1>8 DEF IInv, GrantedRight
    <3>2. u # t
      BY <2>5, <3>1, <1>3, <1>8
    <3> QED BY <3>1, <3>2, <1>7, <1>12
  <2>6. \A k \in Locks, u \in Tickets : Ctx(u) = c => ~Contains(waiting'[k], u)
    BY <1>3, <1>5 DEF IInv, WaitingRight
  <2>7. pc'[c] \notin {"acquire"} \cup Pending
    BY <1>5 DEF Pending
  <2>8. TodoRight(c)'
    BY <1>3, <1>5, EmptyList DEF TodoRight
  <2> QED BY <2>1, <2>2, <2>3, <2>4, <2>5, <2>6, <2>7, <2>8, <1>5, <1>9
       DEF OwnRight
<1>14. \A k \in Locks : k # l => t \notin granted[k] /\ o \notin granted[k]
  BY <1>2, <1>3 DEF IInv, GrantedRight
<1>15. GrantedCovered'
  <2> SUFFICES ASSUME NEW k \in Locks PROVE Covers(gsum'[k], granted'[k], type')
    BY DEF GrantedCovered
  <2>1. gsum[k] \in Sum /\ Covers(gsum[k], granted[k], type) /\ granted[k] \subseteq Tickets
    BY DEF IInv, TypeInv, GrantedCovered
  <2>2. CASE k = l
    <3> DEFINE s == RemoveTicket(gsum[k], type[t])
               G == granted[k] \ {t}
    <3>1. s \in Sum
      BY <2>1, <1>3, SumType
    <3>2. Covers(s, G, type)
      BY <2>1, <2>2, <1>3, CoversRemove
    <3>3. o \in G /\ type'[o] = y /\ \A u \in G \ {o} : type'[u] = type[u]
      BY <2>1, <2>2, <1>3, <1>7
    <3>4. gsum'[k] = AddTicket(RemoveTicket(s, type[o]), y) /\ granted'[k] = G
      BY <2>2, <1>6, <1>8
    <3> HIDE DEF s, G
    <3>5. Covers(AddTicket(RemoveTicket(s, type[o]), y), G, type')
      BY <3>1, <3>2, <3>3, <1>3, RetypeCovers
    <3> QED BY <3>4, <3>5
  <2>3. CASE k # l
    <3>1. \A u \in granted[k] : type'[u] = type[u]
      BY <2>1, <2>3, <1>7, <1>14
    <3>2. Covers(gsum[k], granted[k], type')
      BY <2>1, <3>1, CoversFrame
    <3> QED BY <2>3, <3>2, <1>6, <1>8
  <2> QED BY <2>2, <2>3
<1>16. GrantedCompatible'
  <2>1. \A k \in Locks : granted'[k] \subseteq granted[k] /\ t \notin granted'[k]
    BY <1>8, <1>14
  <2>2. \A k \in Locks : \A u \in granted'[k] : u # o => type'[u] = type[u]
    <3> SUFFICES ASSUME NEW k \in Locks, NEW u \in granted'[k], u # o
                 PROVE  type'[u] = type[u]
      OBVIOUS
    <3>1. u \in Tickets /\ u # t
      BY <2>1, <1>8
    <3> QED BY <3>1, <1>7
  <2>3. type'[o] = y
    BY <1>7
  <2> QED BY <2>1, <2>2, <2>3, <1>3, <1>10, RetypedCompatible
<1>17. \A k \in Locks : IsInjective(waiting'[k])
  BY <1>5 DEF IInv, WaitingRight
<1> QED BY <1>10, <1>11, <1>13, <1>15, <1>16, <1>17, OwnStep

(* reschedule_waiters() grants the request it looks at: this is a step of  *)
(* the context whose request it is.                                        *)
LEMMA RescheduleGrantStep ==
  ASSUME IInv, NEW c \in Contexts, RescheduleGrant(c)
  PROVE  IInv'
<1>1. /\ sched[c].lock \in Locks
      /\ Contains(waiting[sched[c].lock], Candidate(c)) /\ Candidate(c) \in Tickets
  <2>1. pc[c] = "reschedule" /\ sched[c].i <= Len(waiting[sched[c].lock])
    BY DEF RescheduleGrant, Rescheduling
  <2>2. sched[c].lock \in Locks /\ sched[c].i \in Nat
    BY <2>1 DEF IInv, TypeInv, ControlRight, Control
  <2>3. waiting[sched[c].lock] \in Seq(Tickets)
    BY <2>2 DEF IInv, TypeInv
  <2>4. sched[c].i # 0
    BY <2>1 DEF IInv, ControlRight, Control
  <2>5. sched[c].i \in 1 .. Len(waiting[sched[c].lock])
    BY <2>1, <2>2, <2>3, <2>4
  <2> QED BY <2>2, <2>3, <2>5 DEF Candidate, Contains
<1>2. PICK t \in Tickets, l \in Locks, a \in Contexts :
        t = Candidate(c) /\ l = sched[c].lock /\ a = Ctx(t)
  BY <1>1, Basics
<1>3. /\ CanGrant(l, type[t], a, sched[c].skip) /\ status[a] = "EMPTY"
      /\ status' = [status EXCEPT ![a] = "GRANTED"]
      /\ waiting' = [waiting EXCEPT ![l] = RemoveFirst(@, t)]
      /\ wsum' = [wsum EXCEPT ![l] = RemoveTicket(@, type[t])]
      /\ granted' = [granted EXCEPT ![l] = @ \cup {t}]
      /\ gsum' = [gsum EXCEPT ![l] = AddTicket(@, type[t])]
      /\ hog' = [hog EXCEPT ![l] = IF type[t] \in Hogs(l) /\ @ < MaxHog
                                   THEN @ + 1 ELSE @]
      /\ UNCHANGED <<writer, ticketVars, waiting_for, overweight, victim, result,
                     gone, contextVars>>
  BY <1>2 DEF RescheduleGrant, Grantable
<1> USE Basics
<1>4. /\ lockof[t] = l /\ type[t] # "free" /\ t \notin granted[l]
      /\ pc[a] \in Pending /\ mine[a] = t
  BY <1>1, <1>2 DEF IInv, WaitingRight, IsPending
<1>4a. type[t] \in Types
  BY <1>4 DEF IInv, TypeInv
<1>5. /\ waiting' \in [Locks -> Seq(Tickets)]
      /\ \A k \in Locks : IsInjective(waiting'[k])
      /\ \A k \in Locks, u \in Tickets : Contains(waiting'[k], u) <=>
           Contains(waiting[k], u) /\ ~(k = l /\ u = t)
  <2>1. /\ waiting \in [Locks -> Seq(Tickets)]
        /\ \A k \in Locks : IsInjective(waiting[k])
    BY DEF IInv, TypeInv, WaitingRight
  <2>2. /\ RemoveFirst(waiting[l], t) \in Seq(Tickets)
        /\ IsInjective(RemoveFirst(waiting[l], t))
        /\ \A u : Contains(RemoveFirst(waiting[l], t), u) <=>
                    Contains(waiting[l], u) /\ u # t
    BY <2>1, RemoveList
  <2>3. \A k \in Locks : waiting'[k] = IF k = l THEN RemoveFirst(waiting[k], t)
                                       ELSE waiting[k]
    BY <2>1, <1>3
  <2>4. waiting' \in [Locks -> Seq(Tickets)]
    BY <2>1, <2>2, <1>3
  <2> QED BY <2>1, <2>2, <2>3, <2>4
<1>6. /\ granted' \in [Locks -> SUBSET Tickets]
      /\ \A k \in Locks : granted'[k] = IF k = l THEN granted[k] \cup {t} ELSE granted[k]
  <2>1. granted \in [Locks -> SUBSET Tickets]
    BY DEF IInv, TypeInv
  <2> QED BY <2>1, <1>3
<1>7. /\ gsum' \in [Locks -> Sum] /\ wsum' \in [Locks -> Sum]
      /\ \A k \in Locks : gsum'[k] = IF k = l THEN AddTicket(gsum[k], type[t]) ELSE gsum[k]
  <2>1. gsum \in [Locks -> Sum] /\ wsum \in [Locks -> Sum]
    BY DEF IInv, TypeInv
  <2>2. AddTicket(gsum[l], type[t]) \in Sum /\ RemoveTicket(wsum[l], type[t]) \in Sum
    BY <2>1, <1>4a, SumType
  <2> QED BY <2>1, <2>2, <1>3
<1>8. hog' \in [Locks -> 0 .. MaxHog]
  <2>1. hog \in [Locks -> 0 .. MaxHog]
    BY DEF IInv, TypeInv
  <2> QED BY <2>1, <1>3, MdlAssumption
<1>9. /\ status' \in [Contexts -> Statuses]
      /\ status'[a] = "GRANTED" /\ \A x \in Contexts \ {a} : status'[x] = status[x]
  <2>1. status \in [Contexts -> Statuses]
    BY DEF IInv, TypeInv
  <2> QED BY <2>1, <1>3 DEF Statuses
<1>10. TypeInv'
  BY <1>3, <1>5, <1>6, <1>7, <1>8, <1>9 DEF IInv, TypeInv, ticketVars, contextVars
<1>11. OthersStep(a)
  BY <1>2, <1>3, <1>5, <1>6, <1>9 DEF OthersStep, ticketVars, contextVars
<1>12. \A u \in Tickets : Listed(u)' = Listed(u) /\ IsPending(u)' = IsPending(u)
  BY <1>3 DEF Listed, IsPending, ticketVars, contextVars
<1>13. OwnRight(a)'
  <2>1. Control(a)'
    BY <1>3 DEF IInv, ControlRight, Control, contextVars
  <2>2. \A k \in Locks : writer'[k] = a => pc'[a] = "reschedule" /\ sched'[a].lock = k
    BY <1>3 DEF IInv, WriterRight, contextVars
  <2>3. ASSUME NEW d \in AllDurations, NEW u \in Tickets,
               Contains(m_tickets'[a][d], u)
        PROVE  /\ Ctx(u) = a /\ dur'[u] = d
               /\ type'[u] # "free" /\ u \in granted'[lockof'[u]]
    <3>1. /\ Ctx(u) = a /\ dur[u] = d
          /\ type[u] # "free" /\ u \in granted[lockof[u]]
      BY <2>3, <1>3 DEF IInv, ListsRight, contextVars
    <3>2. lockof[u] \in Locks
      BY <3>1 DEF IInv, TicketsRight
    <3> QED BY <3>1, <3>2, <1>3, <1>6 DEF ticketVars
  <2>4. ASSUME NEW u \in Tickets, Ctx(u) = a, type'[u] # "free"
        PROVE  lockof'[u] \in Locks /\ (Listed(u)' \/ IsPending(u)')
    BY <2>4, <1>3, <1>12 DEF IInv, TicketsRight, ticketVars
  <2>5. ASSUME NEW k \in Locks, NEW u \in Tickets, u \in granted'[k]
        PROVE  lockof'[u] = k /\ type'[u] # "free"
    <3>1. CASE u = t /\ k = l
      BY <3>1, <1>3, <1>4 DEF ticketVars
    <3>2. CASE u \in granted[k]
      BY <3>2, <1>3 DEF IInv, GrantedRight, ticketVars
    <3> QED BY <2>5, <3>1, <3>2, <1>6
  <2>6. ASSUME NEW k \in Locks, NEW u \in Tickets, Ctx(u) = a,
               Contains(waiting'[k], u)
        PROVE  FALSE
    <3>1. lockof[u] = k /\ IsPending(u) /\ ~(k = l /\ u = t)
      BY <2>6, <1>5 DEF IInv, WaitingRight
    <3>2. u = t
      BY <2>6, <3>1, <1>4 DEF IsPending
    <3> QED BY <3>1, <3>2, <1>4
  <2>7. PendingRight(a)'
    <3>1. PendingRight(a)
      BY <1>4 DEF IInv, PendingsRight
    <3>2. /\ mine'[a] = t /\ lockof'[t] = l /\ type'[t] = type[t] /\ pc'[a] = pc[a]
          /\ result'[a] = result[a] /\ m_tickets'[a] = m_tickets[a]
      BY <1>3, <1>4 DEF ticketVars, contextVars
    <3>3. t \in granted'[l]
      BY <1>6
    <3> QED BY <3>1, <3>2, <3>3, <1>3, <1>4, <1>9 DEF PendingRight
  <2>8. TodoRight(a)'
    BY <1>3, <1>12 DEF IInv, TodosRight, TodoRight, contextVars
  <2>9. upgrade'[a] # NoUpgrade => UpgradeRight(a)'
    <3>1. upgrade[a] # NoUpgrade => UpgradeRight(a)
      BY DEF IInv, UpgradesRight
    <3> QED BY <3>1, <1>3 DEF UpgradeRight, Listed, ticketVars, contextVars
  <2>10. SavepointRight(a)'
    <3>1. SavepointRight(a)
      BY <1>4 DEF IInv, SavepointsRight
    <3> QED BY <3>1, <1>3 DEF SavepointRight, Since, Held, ticketVars, contextVars
  <2>11. \A d \in AllDurations : IsInjective(m_tickets'[a][d])
    BY <1>3 DEF IInv, ListsRight, contextVars
  <2> QED BY <2>1, <2>2, <2>3, <2>4, <2>5, <2>6, <2>7, <2>8, <2>9, <2>10, <2>11
       DEF OwnRight
<1>14. type' = type
  BY <1>3 DEF ticketVars
<1>15. GrantedCovered'
  <2> SUFFICES ASSUME NEW k \in Locks PROVE Covers(gsum'[k], granted'[k], type)
    BY <1>14 DEF GrantedCovered
  <2>1. gsum[k] \in Sum /\ Covers(gsum[k], granted[k], type)
    BY DEF IInv, TypeInv, GrantedCovered
  <2>2. CASE k = l
    <3>1. Covers(AddTicket(gsum[k], type[t]), granted[k] \cup {t}, type)
      BY <2>1, <2>2, <1>4, <1>4a, CoversAdd
    <3> QED BY <2>2, <3>1, <1>6, <1>7
  <2>3. CASE k # l
    BY <2>1, <2>3, <1>6, <1>7
  <2> QED BY <2>2, <2>3
<1>16. GrantedCompatible'
  <2>1. \A u \in granted[l] : Ctx(u) # a => type[u] \notin Incompatible(l, type[t])
    BY <1>3, <1>4a, CanGrantMeans
  <2> SUFFICES ASSUME NEW k \in Locks, NEW u \in granted'[k], NEW v \in granted'[k],
                      Ctx(u) # Ctx(v)
               PROVE  type[v] \notin Incompatible(k, type[u])
    BY <1>14 DEF GrantedCompatible
  <2>2. CASE u \in granted[k] /\ v \in granted[k]
    BY <2>2 DEF IInv, GrantedCompatible
  <2>3. CASE u = t /\ k = l /\ v \in granted[k]
    BY <2>1, <2>3, <1>2
  <2>4. CASE v = t /\ k = l /\ u \in granted[k]
    <3>1. u \in Tickets /\ type[u] # "free"
      BY <2>4 DEF IInv, TypeInv, GrantedRight
    <3>2. type[u] \in Types
      BY <3>1 DEF IInv, TypeInv
    <3> QED BY <2>1, <2>4, <3>2, <1>2, <1>4a, IncompatibleSymmetric
  <2> QED BY <2>2, <2>3, <2>4, <1>6
<1> QED BY <1>5, <1>10, <1>11, <1>13, <1>15, <1>16, OwnStep

(* What a context changes only of its own loop leaves the locks' tickets   *)
(* and all lists as they are.                                              *)
LoopStep(c) ==
  /\ pc[c] = "reschedule"
  /\ UNCHANGED <<granted, waiting, gsum, ticketVars, waitVars, m_tickets,
                 want, svp, mine, upgrade, todo>>
  /\ \A x \in Contexts \ {c} : pc'[x] = pc[x] /\ sched'[x] = sched[x]
  /\ \A l \in Locks : \/ writer'[l] = writer[l]
                      \/ {writer[l], writer'[l]} \subseteq {NoContext, c}

(* Such a step keeps the invariant if it keeps types and control.          *)
LEMMA LoopFrame ==
  ASSUME IInv, NEW c \in Contexts, LoopStep(c), TypeInv', Control(c)',
         (\A l \in Locks : writer[l] = c => pc[c] = "reschedule" /\ sched[c].lock = l)',
         pc'[c] \notin {"acquire"} \cup Pending
  PROVE  IInv'
<1> USE Basics DEF LoopStep
<1>1. Control(c) /\ pc[c] \notin Pending
  BY DEF IInv, ControlRight, Pending
<1>2. waiting_for[c] = NoTicket /\ upgrade[c] = NoUpgrade
  BY <1>1 DEF Control, Pending
<1>3. OthersStep(c)
  <2>1. \A x \in Contexts : victim[x] # c
    BY <1>2, NotVictim
  <2> QED BY <2>1 DEF OthersStep, ticketVars, waitVars
<1>4. \A t \in Tickets : Listed(t)' = Listed(t)
  BY DEF Listed, ticketVars
<1>5. \A t \in Tickets : Ctx(t) = c => ~IsPending(t)
  BY <1>1 DEF IsPending
<1>6. OwnRight(c)'
  <2>1. \A d \in AllDurations : IsInjective(m_tickets'[c][d])
    BY DEF IInv, ListsRight
  <2>2. ASSUME NEW d \in AllDurations, NEW u \in Tickets,
               Contains(m_tickets'[c][d], u)
        PROVE  /\ Ctx(u) = c /\ dur'[u] = d
               /\ type'[u] # "free" /\ u \in granted'[lockof'[u]]
    BY <2>2 DEF IInv, ListsRight, ticketVars
  <2>3. ASSUME NEW u \in Tickets, Ctx(u) = c, type'[u] # "free"
        PROVE  lockof'[u] \in Locks /\ Listed(u)'
    BY <2>3, <1>4, <1>5 DEF IInv, TicketsRight, ticketVars
  <2>4. ASSUME NEW k \in Locks, NEW u \in Tickets, u \in granted'[k]
        PROVE  lockof'[u] = k /\ type'[u] # "free"
    BY <2>4 DEF IInv, GrantedRight, ticketVars
  <2>5. \A k \in Locks, u \in Tickets : Ctx(u) = c => ~Contains(waiting'[k], u)
    BY <1>5 DEF IInv, WaitingRight
  <2>6. TodoRight(c)'
    BY <1>4 DEF IInv, TodosRight, TodoRight
  <2> QED BY <2>1, <2>2, <2>3, <2>4, <2>5, <2>6, <1>2 DEF OwnRight
<1>7. GrantedCovered' /\ GrantedCompatible'
  BY DEF IInv, GrantedCovered, GrantedCompatible, ticketVars
<1>8. \A k \in Locks : IsInjective(waiting'[k])
  BY DEF IInv, WaitingRight
<1> QED BY <1>3, <1>6, <1>7, <1>8, OwnStep

(* reschedule_waiters() passes over a request.                             *)
LEMMA ReschedulePassStep ==
  ASSUME IInv, NEW c \in Contexts, ReschedulePass(c)
  PROVE  IInv'
<1> USE Basics DEF ReschedulePass
<1>1. pc[c] = "reschedule" /\ pc' = pc
  BY DEF Rescheduling
<1>2. sched \in [Contexts -> [lock : Locks \cup {NoLock}, i : Nat, skip : BOOLEAN]]
  BY DEF IInv, TypeInv
<1>3. /\ sched' \in [Contexts -> [lock : Locks \cup {NoLock}, i : Nat, skip : BOOLEAN]]
      /\ \A x \in Contexts \ {c} : sched'[x] = sched[x]
      /\ sched'[c].lock = sched[c].lock /\ sched'[c].i # 0
  BY <1>2
<1>4. TypeInv'
  BY <1>1, <1>3 DEF IInv, TypeInv, lockVars, ticketVars, waitVars
<1>5. Control(c) /\ sched[c].lock \in Locks
  BY <1>1 DEF IInv, ControlRight, Control
<1>6. sched'[c] # NoSched
  BY <1>3, <1>5 DEF NoSched
<1>7. Control(c)'
  BY <1>1, <1>3, <1>5, <1>6 DEF Control, lockVars, waitVars
<1>8. LoopStep(c)
  BY <1>1, <1>3 DEF LoopStep, lockVars
<1>9. \A l \in Locks : writer'[l] = c => pc'[c] = "reschedule" /\ sched'[c].lock = l
  BY <1>1, <1>3 DEF IInv, WriterRight, lockVars
<1> QED BY <1>1, <1>4, <1>7, <1>8, <1>9, LoopFrame DEF Pending

(* reschedule_waiters() is done, and m_rwlock is unlocked.                 *)
LEMMA RescheduleEndStep ==
  ASSUME IInv, NEW c \in Contexts, RescheduleEnd(c)
  PROVE  IInv'
<1> USE Basics DEF RescheduleEnd
<1>1. pc[c] = "reschedule" /\ Control(c) /\ sched[c].lock \in Locks
  BY DEF IInv, ControlRight, Control
<1>2. /\ sched' \in [Contexts -> [lock : Locks \cup {NoLock}, i : Nat, skip : BOOLEAN]]
      /\ sched'[c] = NoSched /\ \A x \in Contexts \ {c} : sched'[x] = sched[x]
  <2>1. sched \in [Contexts -> [lock : Locks \cup {NoLock}, i : Nat, skip : BOOLEAN]]
    BY DEF IInv, TypeInv
  <2> QED BY <2>1 DEF NoSched
<1>3. /\ pc' \in [Contexts -> Places] /\ pc'[c] = Resting(todo[c])
      /\ \A x \in Contexts \ {c} : pc'[x] = pc[x]
  <2>1. pc \in [Contexts -> Places]
    BY DEF IInv, TypeInv
  <2> QED BY <2>1 DEF Resting, Places
<1>4. /\ writer' \in [Locks -> Contexts \cup {NoContext}]
      /\ \A k \in Locks : writer'[k] = IF k = sched[c].lock THEN NoContext ELSE writer[k]
  <2>1. writer \in [Locks -> Contexts \cup {NoContext}]
    BY DEF IInv, TypeInv
  <2> QED BY <2>1
<1>5. hog' \in [Locks -> 0 .. MaxHog]
  <2>1. hog \in [Locks -> 0 .. MaxHog]
    BY DEF IInv, TypeInv
  <2>2. PICK v \in 0 .. MaxHog : hog' = [hog EXCEPT ![sched[c].lock] = v]
    <3> DEFINE l == sched[c].lock
               v == IF wsum[l].bitmap \ Hogs(l) = {} THEN 0 ELSE hog[l]
    <3>1. hog' = [hog EXCEPT ![l] = v]
      OBVIOUS
    <3>2. 0 \in 0 .. MaxHog /\ hog[l] \in 0 .. MaxHog
      <4>1. 0 \in 0 .. MaxHog
        BY MdlAssumption
      <4>2. l \in Locks
        BY <1>1
      <4> HIDE DEF l
      <4> QED BY <2>1, <4>1, <4>2
    <3>3. v \in 0 .. MaxHog
      BY <3>2
    <3> QED BY <3>1, <3>3, Zenon
  <2> QED BY <2>1, <2>2
<1>6. TypeInv'
  BY <1>2, <1>3, <1>4, <1>5 DEF IInv, TypeInv, ticketVars, waitVars
<1>7. Control(c)'
  BY <1>1, <1>2, <1>3 DEF Control, Resting, waitVars, Pending
<1>8. writer[sched[c].lock] = c
  BY <1>1 DEF Control
<1>9. LoopStep(c)
  BY <1>1, <1>2, <1>3, <1>4, <1>8 DEF LoopStep
<1>10. \A k \in Locks : writer'[k] # c
  BY <1>1, <1>4 DEF IInv, WriterRight
<1>11. pc'[c] \notin {"acquire"} \cup Pending
  BY <1>3 DEF Resting, Pending
<1> QED BY <1>6, <1>7, <1>9, <1>10, <1>11, LoopFrame

(* The invariant holds when the server starts.                             *)
LEMMA InitInv ==
  Init => IInv
<1> SUFFICES ASSUME Init PROVE IInv
  OBVIOUS
<1> USE Basics, MdlAssumption DEF Init
<1>1. TypeInv
  <2>1. EmptySum \in Sum
    BY DEF EmptySum, Sum
  <2>2. <<>> \in Seq(Tickets)
    BY EmptyList
  <2>3. /\ gsum \in [Locks -> Sum] /\ wsum \in [Locks -> Sum]
        /\ waiting \in [Locks -> Seq(Tickets)] /\ granted \in [Locks -> SUBSET Tickets]
        /\ todo \in [Contexts -> Seq(Tickets)]
        /\ m_tickets \in [Contexts -> [AllDurations -> Seq(Tickets)]]
        /\ hog \in [Locks -> 0 .. MaxHog]
        /\ overweight \in [Contexts -> 0 .. MaxOverweight]
    BY <2>1, <2>2
  <2>4. /\ svp \in [Contexts -> [stmt : MaybeTicket, trans : MaybeTicket,
                                 held : SUBSET Tickets]]
        /\ upgrade \in [Contexts -> [ticket : MaybeTicket, type : Types \cup {"free"}]]
        /\ sched \in [Contexts -> [lock : Locks \cup {NoLock}, i : Nat, skip : BOOLEAN]]
    BY DEF MaybeTicket, NoSavepoint, NoUpgrade, NoSched
  <2> QED BY <2>3, <2>4 DEF TypeInv, MaybeTicket, Statuses, Places
<1>2. ControlRight /\ WriterRight /\ VictimIsWaiting
  BY DEF ControlRight, Control, WriterRight, VictimIsWaiting, NoSched, NoUpgrade, Pending
<1>3. ListsRight /\ TodosRight
  BY EmptyList DEF ListsRight, TodosRight, TodoRight
<1>4. TicketsRight /\ GrantedRight
  BY DEF TicketsRight, GrantedRight
<1>5. WaitingRight
  BY EmptyList DEF WaitingRight
<1>6. PendingsRight /\ UpgradesRight /\ SavepointsRight
  BY DEF PendingsRight, UpgradesRight, SavepointsRight, Pending
<1>7. GrantedCovered /\ GrantedCompatible
  BY EmptySummary DEF GrantedCovered, GrantedCompatible
<1> QED BY <1>1, <1>2, <1>3, <1>4, <1>5, <1>6, <1>7 DEF IInv

(* Every step of every context keeps it.                                   *)
LEMMA NextInv ==
  IInv /\ [Next]_vars => IInv'
<1> SUFFICES ASSUME IInv, [Next]_vars PROVE IInv'
  OBVIOUS
<1>1. CASE UNCHANGED vars
  <2> USE <1>1 DEF vars, lockVars, ticketVars, waitVars, contextVars
  <2>1. TypeInv' /\ ControlRight' /\ WriterRight' /\ VictimIsWaiting'
    BY DEF IInv, TypeInv, ControlRight, Control, WriterRight, VictimIsWaiting
  <2>2. ListsRight' /\ TicketsRight' /\ GrantedRight' /\ WaitingRight'
    BY DEF IInv, ListsRight, TicketsRight, GrantedRight, WaitingRight, Listed, IsPending
  <2>3. PendingsRight' /\ TodosRight' /\ UpgradesRight'
    BY DEF IInv, PendingsRight, PendingRight, TodosRight, TodoRight, UpgradesRight,
       UpgradeRight, Listed
  <2>4. SavepointsRight' /\ GrantedCovered' /\ GrantedCompatible'
    BY DEF IInv, SavepointsRight, SavepointRight, Since, Held, GrantedCovered,
       GrantedCompatible
  <2> QED BY <2>1, <2>2, <2>3, <2>4 DEF IInv
<1>2. ASSUME NEW c \in Contexts, Start(c) PROVE IInv'
  <2>1. ASSUME NEW rs \in Calls[c], StartAcquire(c, rs) PROVE IInv'
    BY <2>1, StartAcquireStep
  <2>2. ASSUME NEW t \in Tickets, NEW y \in UpgradeTo, StartUpgrade(c, t, y) PROVE IInv'
    BY <2>2, StartUpgradeStep
  <2>3. ASSUME NEW t \in Tickets, NEW y \in DowngradeTo, Downgrade(c, t, y) PROVE IInv'
    BY <2>3, DowngradeStep
  <2>4. CASE \/ ReleaseTransactionalLocks(c)
             \/ ReleaseStatementLocks(c)
             \/ ReleaseExplicitLocks(c)
             \/ \E t \in Tickets : ReleaseExplicitLock(c, t)
             \/ \E l \in Locks : ReleaseAllLocksForName(c, l)
             \/ \E t \in Tickets : RollbackToSavepoint(c, t)
    BY <2>4, ReleaseStep
  <2>5. CASE \/ \E t \in Tickets, d \in Durations : SetLockDuration(c, t, d)
             \/ SetExplicitDurationForAllLocks(c)
             \/ SetTransactionDurationForAllLocks(c)
    BY <2>5, DurationStep
  <2> QED BY <1>2, <2>1, <2>2, <2>3, <2>4, <2>5 DEF Start
<1>3. ASSUME NEW c \in Contexts, Continue(c) PROVE IInv'
  <2>1. ASSUME NEW r \in want[c], NEW t \in Tickets,
               \/ AcquireReuse(c, r, t) \/ AcquireClone(c, r, t)
               \/ AcquireGrant(c, r, t) \/ AcquireEnqueue(c, r, t)
        PROVE  IInv'
    BY <2>1, AcquireReuseStep, AcquireCloneStep, AcquireGrantStep, AcquireEnqueueStep
  <2>2. CASE WillWaitFor(c) \/ FindNoDeadlock(c) \/ SetVictim(c)
    BY <2>2, WillWaitForStep, FindNoDeadlockStep, SetVictimStep
  <2>3. ASSUME NEW v \in Contexts, FindVictim(c, v) PROVE IInv'
    BY <2>3, FindVictimStep
  <2>4. ASSUME NEW a \in Aborts, WaitAborted(c, a) PROVE IInv'
    BY <2>4, WaitAbortedStep
  <2>5. CASE WaitSignalled(c) \/ DoneGranted(c) \/ DoneFailed(c) \/ Withdraw(c)
    BY <2>5, WaitSignalledStep, DoneGrantedStep, DoneFailedStep, WithdrawStep
  <2>6. CASE ReleaseLock(c) \/ RescheduleGrant(c) \/ ReschedulePass(c) \/ RescheduleEnd(c)
    BY <2>6, ReleaseLockStep, RescheduleGrantStep, ReschedulePassStep, RescheduleEndStep
  <2>7. CASE MergeNew(c) \/ MergeReused(c)
    BY <2>7, MergeNewStep, MergeReusedStep
  <2> QED BY <1>3, <2>1, <2>2, <2>3, <2>4, <2>5, <2>6, <2>7 DEF Continue
<1>4. ASSUME NEW c \in Contexts, GiveUp(c) PROVE IInv'
  <2>1. ASSUME NEW r \in want[c], AcquireNoWait(c, r) PROVE IInv'
    BY <2>1, AcquireNoWaitStep
  <2>2. CASE WaitDisconnected(c)
    BY <2>2, WaitDisconnectedStep
  <2> QED BY <1>4, <2>1, <2>2 DEF GiveUp
<1> QED BY <1>1, <1>2, <1>3, <1>4 DEF Next

(* The inductive invariant holds in every state of every behaviour.        *)
THEOREM Invariance == Spec => []IInv
<1>1. Init => IInv
  BY InitInv
<1>2. IInv /\ [Next]_vars => IInv'
  BY NextInv
<1> QED BY <1>1, <1>2, PTL DEF Spec

(* No two contexts ever have incompatible metadata locks on an object, for *)
(* any contexts, locks, calls, upgrades and downgrades: whatever           *)
(* can_grant_lock(), clone_ticket(), upgrade_shared_lock(),                *)
(* downgrade_lock() and reschedule_waiters() do in whatever order.         *)
THEOREM Exclusion == Spec => []GrantedCompatible
<1>1. IInv => GrantedCompatible
  BY DEF IInv
<1> QED BY <1>1, Invariance, PTL

(* Every variable has its type, and a context has a ticket in hand, a      *)
(* victim locked or a lock write-locked exactly where its call needs it.   *)
THEOREM TypeCorrect == Spec => []MdlTypeOK
<1>1. IInv => MdlTypeOK
  <2> SUFFICES ASSUME IInv PROVE MdlTypeOK
    OBVIOUS
  <2>1. ASSUME NEW c \in Contexts
        PROVE  /\ mine[c] = NoTicket <=>
                    pc[c] \in {"idle", "acquire", "release", "reschedule"}
               /\ victim[c] # NoContext <=> pc[c] = "victim"
               /\ sched[c] # NoSched <=> pc[c] = "reschedule"
               /\ pc[c] = "reschedule" <=> \E l \in Locks : writer[l] = c
    BY Basics DEF IInv, ControlRight, Control, WriterRight
  <2> QED BY <2>1 DEF IInv, TypeInv, MdlTypeOK, MaybeTicket
<1> QED BY <1>1, Invariance, PTL

(* The verdict of a deadlock search hits the wait it was meant for: the    *)
(* victim cannot leave it (done_waiting_for) while it is locked.           *)
THEOREM VerdictInTime == Spec => []VictimIsWaiting
<1>1. IInv => VictimIsWaiting
  BY DEF IInv
<1> QED BY <1>1, Invariance, PTL

(* No ticket leaks and none dangles: between calls a context's lists have  *)
(* exactly its tickets, each once and granted, whatever mix of waits,      *)
(* merges, duration changes and rollbacks came before.                     *)
THEOREM NoTicketLeaks == Spec => []TicketsAccounted
<1>1. IInv => TicketsAccounted
  <2> SUFFICES ASSUME IInv, NEW c \in Contexts, pc[c] = "idle"
               PROVE  /\ Owned(c) = Held(c)
                      /\ \A d \in AllDurations :
                           /\ IsInjective(m_tickets[c][d])
                           /\ \A t \in ToSet(m_tickets[c][d]) :
                                dur[t] = d /\ t \in granted[lockof[t]]
    BY DEF TicketsAccounted
  <2>1. ASSUME NEW t \in Owned(c) PROVE t \in Held(c)
    <3>1. t \in Tickets /\ Ctx(t) = c /\ type[t] # "free" /\ ~IsPending(t)
      BY DEF Owned, IsPending, Pending
    <3>2. Listed(t) /\ dur[t] \in AllDurations
      BY <3>1 DEF IInv, TicketsRight, TypeInv
    <3> QED BY <3>1, <3>2 DEF Listed, Held
  <2>2. ASSUME NEW t \in Held(c) PROVE t \in Owned(c)
    <3>1. t \in Tickets /\ Ctx(t) = c /\ type[t] \in Types
      BY HeldFacts
    <3> QED BY <3>1, Basics DEF Owned
  <2>3. ASSUME NEW d \in AllDurations
        PROVE  /\ IsInjective(m_tickets[c][d])
               /\ \A t \in ToSet(m_tickets[c][d]) :
                    dur[t] = d /\ t \in granted[lockof[t]]
    <3>1. m_tickets[c][d] \in Seq(Tickets) /\ IsInjective(m_tickets[c][d])
      BY DEF IInv, TypeInv, ListsRight
    <3>2. /\ \A t : t \in ToSet(m_tickets[c][d]) <=> Contains(m_tickets[c][d], t)
          /\ ToSet(m_tickets[c][d]) \subseteq Tickets
      BY <3>1, SetOfList
    <3> QED BY <3>1, <3>2 DEF IInv, ListsRight
  <2> QED BY <2>1, <2>2, <2>3
<1> QED BY <1>1, Invariance, PTL

(* A call that fails goes back to exactly the tickets its context had when *)
(* it began: acquire_locks() is all or nothing, however many of its        *)
(* requests had been satisfied and wherever the tickets were pushed.       *)
THEOREM FailedCallUndone == Spec => AllOrNothing
<1> DEFINE Undone ==
      \A c \in Contexts :
        Withdraw(c) \/ (\E r \in want[c] : AcquireNoWait(c, r)) =>
          Held(c) \ ToSet(todo'[c]) = svp[c].held
<1>1. IInv => Undone
  <2> SUFFICES ASSUME IInv, NEW c \in Contexts,
                      Withdraw(c) \/ (\E r \in want[c] : AcquireNoWait(c, r))
               PROVE  Held(c) \ ToSet(todo'[c]) = svp[c].held
    OBVIOUS
  <2>1. pc[c] \in {"acquire"} \cup Pending
    BY DEF Withdraw, AcquireNoWait, Pending
  <2>2. /\ \A t \in Tickets : t \in svp[c].held <=> t \in Held(c) /\ ~Since(c, t)
        /\ svp[c].held \subseteq Tickets
    BY <2>1 DEF IInv, SavepointsRight, SavepointRight, TypeInv
  <2>3. Fail(c)
    BY DEF Withdraw, AcquireNoWait
  <2>4. todo'[c] \in Seq(Tickets) /\ \A t : Contains(todo'[c], t) <=> Since(c, t)
    BY <2>3, FailReleases
  <2>5. \A t : t \in ToSet(todo'[c]) <=> Contains(todo'[c], t)
    BY <2>4, SetOfList
  <2>6. Held(c) \subseteq Tickets
    BY DEF Held
  <2> QED BY <2>2, <2>4, <2>5, <2>6
<1>2. IInv => [Undone]_vars
  BY <1>1
<1>3. []IInv => [][Undone]_vars
  BY <1>2, PTL
<1> QED BY <1>3, Invariance, PTL DEF AllOrNothing

(* The bitmaps and counters of l tell exactly what its two lists hold.     *)
Exact(l) ==
  /\ Agrees(gsum[l], granted[l], type)
  /\ Agrees(wsum[l], ToSet(waiting[l]), type)

AllExact == \A l \in Locks : Exact(l)

(* A ticket gets its type and comes.                                       *)
LEMMA ExactAdd ==
  ASSUME NEW s \in Sum, NEW G, NEW f, NEW h, NEW t, NEW y \in Types,
         Agrees(s, G, f), t \notin G, h[t] = y, \A u \in G : h[u] = f[u]
  PROVE  Agrees(AddTicket(s, y), G \cup {t}, h)
<1>1. Agrees(s, G, h)
  BY AgreesFrame
<1> QED BY <1>1, AgreesAdd

(* A ticket goes and loses its type.                                       *)
LEMMA ExactRemove ==
  ASSUME NEW s \in Sum, NEW G, NEW f, NEW h, NEW t \in G, NEW y \in Types,
         Agrees(s, G, f), f[t] = y, \A u \in G \ {t} : h[u] = f[u]
  PROVE  Agrees(RemoveTicket(s, y), G \ {t}, h)
<1>1. Agrees(RemoveTicket(s, y), G \ {t}, f)
  BY AgreesRemove
<1> QED BY <1>1, AgreesFrame

(* A ticket changes its type.                                              *)
LEMMA ExactRetype ==
  ASSUME NEW s \in Sum, NEW G, NEW f, NEW h, NEW t \in G,
         NEW x \in Types, NEW y \in Types,
         Agrees(s, G, f), f[t] = x, h[t] = y, \A u \in G \ {t} : h[u] = f[u]
  PROVE  Agrees(AddTicket(RemoveTicket(s, x), y), G, h)
<1>1. Agrees(RemoveTicket(s, x), G \ {t}, h)
  BY ExactRemove
<1>2. RemoveTicket(s, x) \in Sum
  BY SumType
<1>3. Agrees(AddTicket(RemoveTicket(s, x), y), (G \ {t}) \cup {t}, h)
  BY <1>1, <1>2, AgreesAdd
<1>4. (G \ {t}) \cup {t} = G
  OBVIOUS
<1> QED BY <1>3, <1>4

(* The types the summaries are made of, and the sets behind the queues.    *)
LEMMA ExactTypes ==
  ASSUME IInv, NEW l \in Locks
  PROVE  /\ gsum[l] \in Sum /\ wsum[l] \in Sum
         /\ granted[l] \subseteq Tickets /\ ToSet(waiting[l]) \subseteq Tickets
         /\ \A u : u \in ToSet(waiting[l]) <=> Contains(waiting[l], u)
<1>1. /\ gsum[l] \in Sum /\ wsum[l] \in Sum
      /\ granted[l] \subseteq Tickets /\ waiting[l] \in Seq(Tickets)
  BY DEF IInv, TypeInv
<1> QED BY <1>1, SetOfList

(* The lists and the types of the tickets in them are as they were.        *)
LEMMA ExactFrame ==
  ASSUME NEW l, Exact(l), gsum'[l] = gsum[l], wsum'[l] = wsum[l],
         granted'[l] = granted[l], waiting'[l] = waiting[l],
         \A u \in granted[l] : type'[u] = type[u],
         \A u \in ToSet(waiting[l]) : type'[u] = type[u]
  PROVE  Exact(l)'
<1>1. Agrees(gsum[l], granted[l], type')
  BY AgreesFrame DEF Exact
<1>2. Agrees(wsum[l], ToSet(waiting[l]), type')
  BY AgreesFrame DEF Exact
<1>3. ToSet(waiting'[l]) = ToSet(waiting[l])
  OBVIOUS
<1> QED BY <1>1, <1>2, <1>3 DEF Exact

(* A new ticket is granted.                                                *)
LEMMA GrantsNewExact ==
  ASSUME IInv, AllExact, NEW c \in Contexts, NEW r \in want[c], NEW t \in Tickets,
         GrantsNew(c, r, t)
  PROVE  AllExact'
<1>1. r.lock \in Locks /\ r.type \in Types
  <2>1. r \in Request
    BY DEF IInv, TypeInv
  <2> QED BY <2>1 DEF Request
<1>2. \A l \in Locks : t \notin granted[l] /\ ~Contains(waiting[l], t)
  <2>1. type[t] = "free"
    BY DEF GrantsNew, IsFirstFree, FreeTickets
  <2> QED BY <2>1 DEF IInv, GrantedRight, WaitingRight
<1>3. /\ type'[t] = r.type /\ \A u \in Tickets \ {t} : type'[u] = type[u]
      /\ \A l \in Locks : /\ granted'[l] = IF l = r.lock THEN granted[l] \cup {t}
                                           ELSE granted[l]
                          /\ gsum'[l] = IF l = r.lock THEN AddTicket(gsum[l], r.type)
                                        ELSE gsum[l]
      /\ waiting' = waiting /\ wsum' = wsum
  <2>1. /\ type \in [Tickets -> Types \cup {"free"}]
        /\ granted \in [Locks -> SUBSET Tickets] /\ gsum \in [Locks -> Sum]
    BY DEF IInv, TypeInv
  <2> QED BY <2>1 DEF GrantsNew, Create
<1> SUFFICES ASSUME NEW l \in Locks PROVE Exact(l)'
  BY DEF AllExact
<1>4. Exact(l)
  BY DEF AllExact
<1>5. /\ gsum[l] \in Sum /\ granted[l] \subseteq Tickets
      /\ ToSet(waiting[l]) \subseteq Tickets /\ t \notin ToSet(waiting[l])
  BY <1>2, ExactTypes
<1>6. /\ \A u \in granted[l] : type'[u] = type[u]
      /\ \A u \in ToSet(waiting[l]) : type'[u] = type[u]
  BY <1>2, <1>3, <1>5
<1>7. CASE l # r.lock
  BY <1>3, <1>4, <1>6, <1>7, ExactFrame
<1>8. CASE l = r.lock
  <2>0. Agrees(gsum[l], granted[l], type) /\ t \notin granted[l] /\ type'[t] = r.type
    BY <1>2, <1>3, <1>4 DEF Exact
  <2>1. Agrees(AddTicket(gsum[l], r.type), granted[l] \cup {t}, type')
    BY <2>0, <1>1, <1>5, <1>6, ExactAdd
  <2>2. Agrees(wsum[l], ToSet(waiting[l]), type')
    BY <1>4, <1>6, AgreesFrame DEF Exact
  <2> QED BY <2>1, <2>2, <1>3, <1>8 DEF Exact
<1> QED BY <1>7, <1>8

(* A new ticket is queued.                                                 *)
LEMMA EnqueueExact ==
  ASSUME IInv, AllExact, NEW c \in Contexts, NEW r \in want[c], NEW t \in Tickets,
         AcquireEnqueue(c, r, t)
  PROVE  AllExact'
<1>1. r.lock \in Locks /\ r.type \in Types
  <2>1. r \in Request
    BY DEF IInv, TypeInv
  <2> QED BY <2>1 DEF Request
<1>2. \A l \in Locks : t \notin granted[l] /\ ~Contains(waiting[l], t)
  <2>1. type[t] = "free"
    BY DEF AcquireEnqueue, IsFirstFree, FreeTickets
  <2> QED BY <2>1 DEF IInv, GrantedRight, WaitingRight
<1>3. /\ type'[t] = r.type /\ \A u \in Tickets \ {t} : type'[u] = type[u]
      /\ \A l \in Locks : /\ waiting'[l] = IF l = r.lock THEN Append(waiting[l], t)
                                           ELSE waiting[l]
                          /\ wsum'[l] = IF l = r.lock THEN AddTicket(wsum[l], r.type)
                                        ELSE wsum[l]
      /\ granted' = granted /\ gsum' = gsum
  <2>1. /\ type \in [Tickets -> Types \cup {"free"}]
        /\ waiting \in [Locks -> Seq(Tickets)] /\ wsum \in [Locks -> Sum]
    BY DEF IInv, TypeInv
  <2> QED BY <2>1 DEF AcquireEnqueue, Create
<1> SUFFICES ASSUME NEW l \in Locks PROVE Exact(l)'
  BY DEF AllExact
<1>4. Exact(l)
  BY DEF AllExact
<1>5. /\ wsum[l] \in Sum /\ granted[l] \subseteq Tickets
      /\ ToSet(waiting[l]) \subseteq Tickets /\ t \notin ToSet(waiting[l])
  BY <1>2, ExactTypes
<1>6. /\ \A u \in granted[l] : type'[u] = type[u]
      /\ \A u \in ToSet(waiting[l]) : type'[u] = type[u]
  BY <1>2, <1>3, <1>5
<1>7. CASE l # r.lock
  BY <1>3, <1>4, <1>6, <1>7, ExactFrame
<1>8. CASE l = r.lock
  <2>1. Agrees(AddTicket(wsum[l], r.type), ToSet(waiting[l]) \cup {t}, type')
    BY <1>1, <1>3, <1>4, <1>5, <1>6, ExactAdd DEF Exact
  <2>2. Agrees(gsum[l], granted[l], type')
    BY <1>4, <1>6, AgreesFrame DEF Exact
  <2>3. waiting[l] \in Seq(Tickets) /\ IsInjective(waiting[l])
    BY DEF IInv, TypeInv, WaitingRight
  <2>4. /\ Append(waiting[l], t) \in Seq(Tickets)
        /\ \A u : Contains(Append(waiting[l], t), u) <=> u = t \/ Contains(waiting[l], u)
    BY <2>3, <1>2, AppendList
  <2>5. /\ \A u : u \in ToSet(Append(waiting[l], t)) <=> Contains(Append(waiting[l], t), u)
        /\ \A u : u \in ToSet(waiting[l]) <=> Contains(waiting[l], u)
    BY <2>3, <2>4, SetOfList
  <2>6. ToSet(Append(waiting[l], t)) = ToSet(waiting[l]) \cup {t}
    BY <2>4, <2>5
  <2> QED BY <2>1, <2>2, <2>6, <1>3, <1>8 DEF Exact
<1> QED BY <1>7, <1>8

(* What remove_ticket() and downgrade_lock() do last keeps the summaries   *)
(* of the other locks, and makes those of an empty one new ones or leaves  *)
(* them as they are.                                                       *)
LEMMA LeaveSums ==
  ASSUME NEW c \in Contexts, NEW l \in Locks, NEW g \in [Locks -> Sum], NEW w \in [Locks -> Sum],
         LeaveNew(c, l, g, w) \/ LeaveRecycled(c, l, g, w) \/ BeginReschedule(c, l, g, w),
         NEW k \in Locks
  PROVE  \/ gsum'[k] = g[k] /\ wsum'[k] = w[k]
         \/ /\ gsum'[k] = EmptySum /\ wsum'[k] = EmptySum
            /\ granted'[k] = {} /\ waiting'[k] = <<>>
<1>1. CASE LeaveNew(c, l, g, w)
  BY <1>1 DEF LeaveNew, IsEmpty
<1>2. CASE LeaveRecycled(c, l, g, w) \/ BeginReschedule(c, l, g, w)
  BY <1>2 DEF LeaveRecycled, BeginReschedule
<1> QED BY <1>1, <1>2

(* The set of the elements of an empty list.                               *)
LEMMA SetOfNone ==
  ToSet(<<>>) = {}
<1>1. ToSet(<<>>) = {<<>>[i] : i \in DOMAIN <<>>}
  BY DEF ToSet
<1> QED BY <1>1

(* The summary of an empty lock that is made new is exact.                 *)
LEMMA EmptyExact ==
  ASSUME NEW k, gsum'[k] = EmptySum, wsum'[k] = EmptySum,
         granted'[k] = {}, waiting'[k] = <<>>
  PROVE  Exact(k)'
<1>1. ToSet(waiting'[k]) = {}
  BY SetOfNone
<1>2. Agrees(EmptySum, {}, type')
  BY EmptySummary
<1> QED BY <1>1, <1>2 DEF Exact

(* A queue without one of its tickets.                                     *)
LEMMA RemovedSet ==
  ASSUME IInv, NEW l \in Locks, NEW t
  PROVE  ToSet(RemoveFirst(waiting[l], t)) = ToSet(waiting[l]) \ {t}
<1>1. waiting[l] \in Seq(Tickets) /\ IsInjective(waiting[l])
  BY DEF IInv, TypeInv, WaitingRight
<1>2. /\ RemoveFirst(waiting[l], t) \in Seq(Tickets)
      /\ \A u : Contains(RemoveFirst(waiting[l], t), u) <=>
                  Contains(waiting[l], u) /\ u # t
  BY <1>1, RemoveList
<1>3. /\ \A u : u \in ToSet(waiting[l]) <=> Contains(waiting[l], u)
      /\ \A u : u \in ToSet(RemoveFirst(waiting[l], t)) <=>
                  Contains(RemoveFirst(waiting[l], t), u)
  BY <1>1, <1>2, SetOfList
<1> QED BY <1>2, <1>3

(* A failed request leaves the queue, where it still was: its context is   *)
(* none whose wait ended without a look at the wait slot.                  *)
LEMMA WithdrawExact ==
  ASSUME IInv, AllExact, NEW c \in Contexts, c \notin Disconnecting, Withdraw(c)
  PROVE  AllExact'
<1>1. pc[c] = "withdraw" /\ pc[c] \in Pending
  BY DEF Pending, Withdraw
<1>2. PICK t \in Tickets, l \in Locks : t = mine[c] /\ l = lockof[t]
  BY <1>1, PendingFacts
<1>3. type[t] \in Types /\ t \notin granted[l] /\ Contains(waiting[l], t)
  <2>1. PendingRight(c) /\ type[t] \in Types
    BY <1>1, <1>2, PendingFacts
  <2> QED BY <1>1, <1>2, <2>1 DEF PendingRight
<1>3a. \A k \in Locks \ {l} : t \notin granted[k] /\ ~Contains(waiting[k], t)
  BY <1>2 DEF IInv, GrantedRight, WaitingRight
<1> DEFINE w == [wsum EXCEPT ![l] = RemoveTicket(@, type[t])]
<1>4. /\ waiting' = [waiting EXCEPT ![l] = RemoveFirst(@, t)]
      /\ granted' = [granted EXCEPT ![l] = @ \ {t}]
      /\ Destroy(t)
      /\ LeaveNew(c, l, gsum, w) \/ LeaveRecycled(c, l, gsum, w)
           \/ BeginReschedule(c, l, gsum, w)
  BY <1>2 DEF Withdraw
<1>5. /\ gsum \in [Locks -> Sum] /\ w \in [Locks -> Sum]
      /\ \A k \in Locks : w[k] = IF k = l THEN RemoveTicket(wsum[k], type[t])
                                 ELSE wsum[k]
  <2>1. gsum \in [Locks -> Sum] /\ wsum \in [Locks -> Sum]
    BY DEF IInv, TypeInv
  <2>2. RemoveTicket(wsum[l], type[t]) \in Sum
    BY <2>1, <1>3, SumType
  <2> QED BY <2>1, <2>2
<1> HIDE DEF w
<1>6. /\ \A u \in Tickets \ {t} : type'[u] = type[u]
      /\ \A k \in Locks :
           /\ granted'[k] = granted[k]
           /\ waiting'[k] = IF k = l THEN RemoveFirst(waiting[k], t) ELSE waiting[k]
  <2>1. \A u \in Tickets \ {t} : type'[u] = type[u]
    BY <1>4, DestroyFacts
  <2>2. granted \in [Locks -> SUBSET Tickets] /\ waiting \in [Locks -> Seq(Tickets)]
    BY DEF IInv, TypeInv
  <2> QED BY <2>1, <2>2, <1>3, <1>4
<1> SUFFICES ASSUME NEW k \in Locks PROVE Exact(k)'
  BY DEF AllExact
<1>7. Exact(k)
  BY DEF AllExact
<1>8. /\ wsum[k] \in Sum /\ granted[k] \subseteq Tickets
      /\ ToSet(waiting[k]) \subseteq Tickets
      /\ \A u : u \in ToSet(waiting[k]) <=> Contains(waiting[k], u)
  BY ExactTypes
<1>9. \A u \in granted[k] : type'[u] = type[u]
  BY <1>3, <1>3a, <1>6, <1>8
<1>10. CASE gsum'[k] = gsum[k] /\ wsum'[k] = w[k]
  <2>1. CASE k # l
    <3>1. \A u \in ToSet(waiting[k]) : type'[u] = type[u]
      BY <2>1, <1>3a, <1>6, <1>8
    <3> QED BY <2>1, <3>1, <1>5, <1>6, <1>7, <1>9, <1>10, ExactFrame
  <2>2. CASE k = l
    <3>1. t \in ToSet(waiting[k]) /\ \A u \in ToSet(waiting[k]) \ {t} : type'[u] = type[u]
      BY <2>2, <1>3, <1>6, <1>8
    <3>2. Agrees(wsum[k], ToSet(waiting[k]), type) /\ Agrees(gsum[k], granted[k], type)
      BY <1>7 DEF Exact
    <3>3. Agrees(RemoveTicket(wsum[k], type[t]), ToSet(waiting[k]) \ {t}, type')
      BY <3>1, <3>2, <1>3, <1>8, ExactRemove
    <3>4. Agrees(gsum[k], granted[k], type')
      BY <3>2, <1>9, AgreesFrame
    <3>5. ToSet(RemoveFirst(waiting[k], t)) = ToSet(waiting[k]) \ {t}
      BY RemovedSet
    <3> QED BY <2>2, <3>3, <3>4, <3>5, <1>5, <1>6, <1>10 DEF Exact
  <2> QED BY <2>1, <2>2
<1>11. CASE /\ gsum'[k] = EmptySum /\ wsum'[k] = EmptySum
            /\ granted'[k] = {} /\ waiting'[k] = <<>>
  BY <1>11, EmptyExact
<1>12. \/ gsum'[k] = gsum[k] /\ wsum'[k] = w[k]
       \/ /\ gsum'[k] = EmptySum /\ wsum'[k] = EmptySum
          /\ granted'[k] = {} /\ waiting'[k] = <<>>
  <2>1. gsum \in [Locks -> Sum] /\ w \in [Locks -> Sum]
    BY <1>5
  <2>2. LeaveNew(c, l, gsum, w) \/ LeaveRecycled(c, l, gsum, w)
          \/ BeginReschedule(c, l, gsum, w)
    BY <1>4
  <2> QED BY <2>1, <2>2, LeaveSums
<1> QED BY <1>10, <1>11, <1>12

(* A granted ticket is released.                                           *)
LEMMA ReleaseLockExact ==
  ASSUME IInv, AllExact, NEW c \in Contexts, ReleaseLock(c)
  PROVE  AllExact'
<1>1. PICK t \in Tickets : t = Head(todo[c]) /\ t \in Held(c)
  <2>1. pc[c] = "release" /\ Control(c)
    BY DEF ReleaseLock, IInv, ControlRight
  <2>2. /\ todo[c] \in Seq(Tickets) /\ todo[c] # <<>> /\ IsInjective(todo[c])
        /\ \A u \in Tickets : Contains(todo[c], u) => Ctx(u) = c /\ Listed(u)
    BY <2>1 DEF Control, IInv, TypeInv, TodosRight, TodoRight
  <2>3. Head(todo[c]) \in Tickets /\ Contains(todo[c], Head(todo[c]))
    BY <2>2, TailList
  <2>4. PICK t \in Tickets : t = Head(todo[c])
    BY <2>3
  <2>5. Ctx(t) = c /\ Listed(t) /\ dur[t] \in AllDurations
    BY <2>2, <2>3, <2>4 DEF IInv, TypeInv
  <2>6. t \in Held(c)
    BY <2>5 DEF Held, Listed
  <2> QED BY <2>4, <2>6
<1>2. PICK l \in Locks : l = lockof[t]
  BY <1>1, HeldFacts
<1>3. type[t] \in Types /\ t \in granted[l]
  BY <1>1, <1>2, HeldFacts
<1>3a. /\ \A k \in Locks \ {l} : t \notin granted[k]
       /\ \A k \in Locks : ~Contains(waiting[k], t)
  BY <1>2, <1>3 DEF IInv, GrantedRight, WaitingRight
<1> DEFINE g == [gsum EXCEPT ![l] = RemoveTicket(@, type[t])]
<1>4. /\ waiting' = waiting
      /\ granted' = [granted EXCEPT ![l] = @ \ {t}]
      /\ Destroy(t)
      /\ LeaveNew(c, l, g, wsum) \/ LeaveRecycled(c, l, g, wsum)
           \/ BeginReschedule(c, l, g, wsum)
  BY <1>1, <1>2 DEF ReleaseLock
<1>5. /\ wsum \in [Locks -> Sum] /\ g \in [Locks -> Sum]
      /\ \A k \in Locks : g[k] = IF k = l THEN RemoveTicket(gsum[k], type[t])
                                 ELSE gsum[k]
  <2>1. gsum \in [Locks -> Sum] /\ wsum \in [Locks -> Sum]
    BY DEF IInv, TypeInv
  <2>2. RemoveTicket(gsum[l], type[t]) \in Sum
    BY <2>1, <1>3, SumType
  <2> QED BY <2>1, <2>2
<1> HIDE DEF g
<1>6. /\ \A u \in Tickets \ {t} : type'[u] = type[u]
      /\ \A k \in Locks :
           granted'[k] = IF k = l THEN granted[k] \ {t} ELSE granted[k]
  <2>1. \A u \in Tickets \ {t} : type'[u] = type[u]
    BY <1>4, DestroyFacts
  <2>2. granted \in [Locks -> SUBSET Tickets]
    BY DEF IInv, TypeInv
  <2> QED BY <2>1, <2>2, <1>4
<1> SUFFICES ASSUME NEW k \in Locks PROVE Exact(k)'
  BY DEF AllExact
<1>7. Exact(k)
  BY DEF AllExact
<1>8. /\ gsum[k] \in Sum /\ granted[k] \subseteq Tickets
      /\ ToSet(waiting[k]) \subseteq Tickets
      /\ \A u : u \in ToSet(waiting[k]) <=> Contains(waiting[k], u)
  BY ExactTypes
<1>9. /\ \A u \in ToSet(waiting[k]) : type'[u] = type[u]
      /\ \A u \in granted[k] \ {t} : type'[u] = type[u]
  BY <1>3a, <1>6, <1>8
<1>10. CASE gsum'[k] = g[k] /\ wsum'[k] = wsum[k]
  <2>1. CASE k # l
    <3>1. \A u \in granted[k] : type'[u] = type[u]
      BY <2>1, <1>3a, <1>9
    <3> QED BY <2>1, <3>1, <1>4, <1>5, <1>6, <1>7, <1>9, <1>10, ExactFrame
  <2>2. CASE k = l
    <3>1. Agrees(wsum[k], ToSet(waiting[k]), type) /\ Agrees(gsum[k], granted[k], type)
      BY <1>7 DEF Exact
    <3>2. t \in granted[k]
      BY <2>2, <1>3
    <3>3. Agrees(RemoveTicket(gsum[k], type[t]), granted[k] \ {t}, type')
      BY <3>1, <3>2, <1>3, <1>8, <1>9, ExactRemove
    <3>4. Agrees(wsum[k], ToSet(waiting[k]), type')
      BY <3>1, <1>9, AgreesFrame
    <3> QED BY <2>2, <3>3, <3>4, <1>4, <1>5, <1>6, <1>10 DEF Exact
  <2> QED BY <2>1, <2>2
<1>11. CASE /\ gsum'[k] = EmptySum /\ wsum'[k] = EmptySum
            /\ granted'[k] = {} /\ waiting'[k] = <<>>
  BY <1>11, EmptyExact
<1>12. \/ gsum'[k] = g[k] /\ wsum'[k] = wsum[k]
       \/ /\ gsum'[k] = EmptySum /\ wsum'[k] = EmptySum
          /\ granted'[k] = {} /\ waiting'[k] = <<>>
  <2>1. g \in [Locks -> Sum] /\ wsum \in [Locks -> Sum]
    BY <1>5
  <2>2. LeaveNew(c, l, g, wsum) \/ LeaveRecycled(c, l, g, wsum)
          \/ BeginReschedule(c, l, g, wsum)
    BY <1>4
  <2> QED BY <2>1, <2>2, LeaveSums
<1> QED BY <1>10, <1>11, <1>12

(* Ticket t of lock l, granted, changes its type to y; the rest of the     *)
(* lists stays as it was.                                                  *)
LEMMA RetypeExact ==
  ASSUME IInv, AllExact, NEW l \in Locks, NEW t \in granted[l], NEW y \in Types,
         type[t] \in Types, type' = [type EXCEPT ![t] = y],
         gsum' = [gsum EXCEPT ![l] = AddTicket(RemoveTicket(@, type[t]), y)],
         UNCHANGED <<granted, waiting, wsum>>
  PROVE  AllExact'
<1> SUFFICES ASSUME NEW k \in Locks PROVE Exact(k)'
  BY DEF AllExact
<1>1. Exact(k)
  BY DEF AllExact
<1>2. /\ gsum[k] \in Sum /\ granted[k] \subseteq Tickets
      /\ ToSet(waiting[k]) \subseteq Tickets
      /\ \A u : u \in ToSet(waiting[k]) <=> Contains(waiting[k], u)
  BY ExactTypes
<1>3. t \in Tickets /\ lockof[t] = l
  BY DEF IInv, TypeInv, GrantedRight
<1>4. k # l => t \notin granted[k]
  BY <1>3 DEF IInv, GrantedRight
<1>5. ~Contains(waiting[k], t)
  BY <1>3 DEF IInv, WaitingRight
<1>6. type'[t] = y /\ \A u \in Tickets \ {t} : type'[u] = type[u]
  <2>1. type \in [Tickets -> Types \cup {"free"}]
    BY DEF IInv, TypeInv
  <2> QED BY <2>1, <1>3
<1>7. gsum'[k] = IF k = l THEN AddTicket(RemoveTicket(gsum[k], type[t]), y)
                 ELSE gsum[k]
  <2>1. gsum \in [Locks -> Sum]
    BY DEF IInv, TypeInv
  <2> QED BY <2>1
<1>8. /\ \A u \in ToSet(waiting[k]) : type'[u] = type[u]
      /\ \A u \in granted[k] \ {t} : type'[u] = type[u]
  BY <1>2, <1>5, <1>6
<1>9. CASE k # l
  BY <1>9, <1>1, <1>4, <1>7, <1>8, ExactFrame
<1>10. CASE k = l
  <2>1. /\ Agrees(gsum[k], granted[k], type) /\ Agrees(wsum[k], ToSet(waiting[k]), type)
        /\ t \in granted[k]
    BY <1>10, <1>1 DEF Exact
  <2>2. Agrees(AddTicket(RemoveTicket(gsum[k], type[t]), y), granted[k], type')
    BY <2>1, <1>2, <1>6, <1>8, ExactRetype
  <2>3. Agrees(wsum[k], ToSet(waiting[k]), type')
    BY <2>1, <1>8, AgreesFrame
  <2> QED BY <2>2, <2>3, <1>7, <1>10 DEF Exact
<1> QED BY <1>9, <1>10

(* The upgrade ends with a new ticket, which goes.                         *)
LEMMA MergeNewExact ==
  ASSUME IInv, AllExact, NEW c \in Contexts, MergeNew(c)
  PROVE  AllExact'
<1>1. pc[c] = "merge"
  BY DEF MergeNew
<1>2. PICK t \in Tickets, o \in Tickets, y \in Types, l \in Locks :
        t = mine[c] /\ o = upgrade[c].ticket /\ y = upgrade[c].type /\ l = lockof[o]
  BY <1>1, MergeFacts
<1>3. /\ t # o /\ lockof[t] = l /\ type[t] \in Types /\ type[o] \in Types
      /\ t \in granted[l] /\ o \in granted[l]
  BY <1>1, <1>2, MergeFacts
<1>4. /\ granted' = [granted EXCEPT ![l] = @ \ {t}]
      /\ gsum' = [gsum EXCEPT ![l] =
           AddTicket(RemoveTicket(RemoveTicket(@, type[t]), type[o]), y)]
      /\ type' = [type EXCEPT ![o] = y, ![t] = "free"]
      /\ waiting' = waiting /\ wsum' = wsum
  BY <1>2 DEF MergeNew, UpgradeDone
<1> SUFFICES ASSUME NEW k \in Locks PROVE Exact(k)'
  BY DEF AllExact
<1>5. Exact(k)
  BY DEF AllExact
<1>6. /\ gsum[k] \in Sum /\ granted[k] \subseteq Tickets
      /\ ToSet(waiting[k]) \subseteq Tickets
      /\ \A u : u \in ToSet(waiting[k]) <=> Contains(waiting[k], u)
  BY ExactTypes
<1>7. k # l => t \notin granted[k] /\ o \notin granted[k]
  BY <1>2, <1>3 DEF IInv, GrantedRight
<1>8. ~Contains(waiting[k], t) /\ ~Contains(waiting[k], o)
  BY <1>2, <1>3 DEF IInv, WaitingRight
<1>9. type'[o] = y /\ \A u \in Tickets \ {t, o} : type'[u] = type[u]
  <2>1. type \in [Tickets -> Types \cup {"free"}]
    BY DEF IInv, TypeInv
  <2> QED BY <2>1, <1>3, <1>4
<1>10. /\ granted'[k] = IF k = l THEN granted[k] \ {t} ELSE granted[k]
       /\ gsum'[k] = IF k = l
                     THEN AddTicket(RemoveTicket(RemoveTicket(gsum[k], type[t]),
                                                 type[o]), y)
                     ELSE gsum[k]
  <2>1. gsum \in [Locks -> Sum] /\ granted \in [Locks -> SUBSET Tickets]
    BY DEF IInv, TypeInv
  <2> QED BY <2>1, <1>4
<1>11. /\ \A u \in ToSet(waiting[k]) : type'[u] = type[u]
       /\ \A u \in granted[k] \ {t, o} : type'[u] = type[u]
  BY <1>6, <1>8, <1>9
<1>12. CASE k # l
  <2>1. \A u \in granted[k] : type'[u] = type[u]
    BY <1>7, <1>11, <1>12
  <2> QED BY <1>12, <1>4, <1>5, <1>10, <1>11, <2>1, ExactFrame
<1>13. CASE k = l
  <2>1. /\ Agrees(gsum[k], granted[k], type) /\ Agrees(wsum[k], ToSet(waiting[k]), type)
        /\ t \in granted[k] /\ o \in granted[k] \ {t}
    BY <1>13, <1>3, <1>5 DEF Exact
  <2>2. /\ Agrees(RemoveTicket(gsum[k], type[t]), granted[k] \ {t}, type)
        /\ RemoveTicket(gsum[k], type[t]) \in Sum
    BY <2>1, <1>3, <1>6, AgreesRemove, SumType
  <2>3. \A u \in (granted[k] \ {t}) \ {o} : type'[u] = type[u]
    BY <1>11
  <2>4. Agrees(AddTicket(RemoveTicket(RemoveTicket(gsum[k], type[t]), type[o]), y),
               granted[k] \ {t}, type')
    BY <2>1, <2>2, <2>3, <1>3, <1>9, ExactRetype
  <2>5. Agrees(wsum[k], ToSet(waiting[k]), type')
    BY <2>1, <1>11, AgreesFrame
  <2> QED BY <2>4, <2>5, <1>4, <1>10, <1>13 DEF Exact
<1> QED BY <1>12, <1>13

(* A queued ticket is granted.                                             *)
LEMMA RescheduleGrantExact ==
  ASSUME IInv, AllExact, NEW c \in Contexts, RescheduleGrant(c)
  PROVE  AllExact'
<1>1. /\ sched[c].lock \in Locks
      /\ Contains(waiting[sched[c].lock], Candidate(c)) /\ Candidate(c) \in Tickets
  <2>1. pc[c] = "reschedule" /\ sched[c].i <= Len(waiting[sched[c].lock])
    BY DEF RescheduleGrant, Rescheduling
  <2>2. sched[c].lock \in Locks /\ sched[c].i \in Nat
    BY <2>1 DEF IInv, TypeInv, ControlRight, Control
  <2>3. waiting[sched[c].lock] \in Seq(Tickets)
    BY <2>2 DEF IInv, TypeInv
  <2>4. sched[c].i # 0
    BY <2>1 DEF IInv, ControlRight, Control
  <2>5. sched[c].i \in 1 .. Len(waiting[sched[c].lock])
    BY <2>1, <2>2, <2>3, <2>4
  <2> QED BY <2>2, <2>3, <2>5 DEF Candidate, Contains
<1>2. PICK t \in Tickets, l \in Locks : t = Candidate(c) /\ l = sched[c].lock
  BY <1>1
<1>3. /\ waiting' = [waiting EXCEPT ![l] = RemoveFirst(@, t)]
      /\ wsum' = [wsum EXCEPT ![l] = RemoveTicket(@, type[t])]
      /\ granted' = [granted EXCEPT ![l] = @ \cup {t}]
      /\ gsum' = [gsum EXCEPT ![l] = AddTicket(@, type[t])]
      /\ type' = type
  BY <1>2 DEF RescheduleGrant, ticketVars
<1>4. Contains(waiting[l], t) /\ t \notin granted[l] /\ type[t] # "free"
  BY <1>1, <1>2 DEF IInv, WaitingRight
<1>5. type[t] \in Types
  BY <1>4 DEF IInv, TypeInv
<1> SUFFICES ASSUME NEW k \in Locks PROVE Exact(k)'
  BY DEF AllExact
<1>6. Exact(k)
  BY DEF AllExact
<1>7. /\ gsum[k] \in Sum /\ wsum[k] \in Sum
      /\ \A u : u \in ToSet(waiting[k]) <=> Contains(waiting[k], u)
  BY ExactTypes
<1>8. /\ waiting'[k] = IF k = l THEN RemoveFirst(waiting[k], t) ELSE waiting[k]
      /\ granted'[k] = IF k = l THEN granted[k] \cup {t} ELSE granted[k]
      /\ wsum'[k] = IF k = l THEN RemoveTicket(wsum[k], type[t]) ELSE wsum[k]
      /\ gsum'[k] = IF k = l THEN AddTicket(gsum[k], type[t]) ELSE gsum[k]
  <2>1. /\ granted \in [Locks -> SUBSET Tickets] /\ waiting \in [Locks -> Seq(Tickets)]
        /\ wsum \in [Locks -> Sum] /\ gsum \in [Locks -> Sum]
    BY DEF IInv, TypeInv
  <2> QED BY <2>1, <1>3
<1>9. CASE k # l
  BY <1>3, <1>6, <1>8, <1>9, ExactFrame
<1>10. CASE k = l
  <2>1. /\ Agrees(gsum[k], granted[k], type) /\ Agrees(wsum[k], ToSet(waiting[k]), type)
        /\ t \in ToSet(waiting[k]) /\ t \notin granted[k]
    BY <1>10, <1>4, <1>6, <1>7 DEF Exact
  <2>2. Agrees(AddTicket(gsum[k], type[t]), granted[k] \cup {t}, type)
    BY <2>1, <1>5, <1>7, AgreesAdd
  <2>3. Agrees(RemoveTicket(wsum[k], type[t]), ToSet(waiting[k]) \ {t}, type)
    BY <2>1, <1>5, <1>7, AgreesRemove
  <2>4. ToSet(RemoveFirst(waiting[k], t)) = ToSet(waiting[k]) \ {t}
    BY RemovedSet
  <2> QED BY <2>2, <2>3, <2>4, <1>3, <1>8, <1>10 DEF Exact
<1> QED BY <1>9, <1>10

(* Every step keeps the summaries exact when no wait is given up by a      *)
(* context whose client has gone.                                          *)
LEMMA NextExact ==
  ASSUME Disconnecting = {}, IInv, AllExact, [Next]_vars
  PROVE  AllExact'
<1>1. ASSUME UNCHANGED <<granted, waiting, gsum, wsum, type>> PROVE AllExact'
  BY <1>1 DEF AllExact, Exact
<1>2. CASE UNCHANGED vars
  BY <1>1, <1>2 DEF vars, lockVars, ticketVars
<1>3. ASSUME NEW c \in Contexts, Start(c) PROVE AllExact'
  <2>1. ASSUME NEW rs \in Calls[c], StartAcquire(c, rs) PROVE AllExact'
    BY <2>1, <1>1 DEF StartAcquire, lockVars, ticketVars
  <2>2. ASSUME NEW t \in Tickets, NEW y \in UpgradeTo, StartUpgrade(c, t, y)
        PROVE  AllExact'
    BY <2>2, <1>1 DEF StartUpgrade, lockVars, ticketVars
  <2>3. ASSUME NEW t \in Tickets, NEW y \in DowngradeTo, Downgrade(c, t, y)
        PROVE  AllExact'
    <3>1. PICK l \in Locks : l = lockof[t]
      BY <2>3, HeldFacts DEF Downgrade
    <3>2. t \in granted[l] /\ type[t] \in Types /\ y \in Types
      BY <2>3, <3>1, HeldFacts, MdlAssumption DEF Downgrade
    <3>3. /\ type' = [type EXCEPT ![t] = y]
          /\ gsum' = [gsum EXCEPT ![l] = AddTicket(RemoveTicket(@, type[t]), y)]
          /\ UNCHANGED <<granted, waiting, wsum>>
      BY <2>3, <3>1 DEF Downgrade, BeginReschedule
    <3> QED BY <3>2, <3>3, RetypeExact
  <2>4. CASE \/ ReleaseTransactionalLocks(c)
             \/ ReleaseStatementLocks(c)
             \/ ReleaseExplicitLocks(c)
             \/ \E t \in Tickets : ReleaseExplicitLock(c, t)
             \/ \E l \in Locks : ReleaseAllLocksForName(c, l)
             \/ \E t \in Tickets : RollbackToSavepoint(c, t)
    <3>1. UNCHANGED <<lockVars, ticketVars>>
      BY <2>4 DEF ReleaseTransactionalLocks, ReleaseStatementLocks,
         ReleaseExplicitLocks, ReleaseExplicitLock, ReleaseAllLocksForName,
         RollbackToSavepoint, StartRelease
    <3> QED BY <3>1, <1>1 DEF lockVars, ticketVars
  <2>5. CASE \/ \E t \in Tickets, d \in Durations : SetLockDuration(c, t, d)
             \/ SetExplicitDurationForAllLocks(c)
             \/ SetTransactionDurationForAllLocks(c)
    <3>1. UNCHANGED <<lockVars, type>>
      BY <2>5 DEF SetLockDuration, SetExplicitDurationForAllLocks,
         SetTransactionDurationForAllLocks, Moved
    <3> QED BY <3>1, <1>1 DEF lockVars
  <2> QED BY <1>3, <2>1, <2>2, <2>3, <2>4, <2>5 DEF Start
<1>4. ASSUME NEW c \in Contexts, Continue(c) PROVE AllExact'
  <2>1. ASSUME NEW r \in want[c], NEW t \in Tickets,
               AcquireClone(c, r, t) \/ AcquireGrant(c, r, t)
        PROVE  AllExact'
    <3>1. GrantsNew(c, r, t)
      BY <2>1 DEF AcquireClone, AcquireGrant, GrantsNew
    <3> QED BY <3>1, GrantsNewExact
  <2>2. ASSUME NEW r \in want[c], NEW t \in Tickets, AcquireEnqueue(c, r, t)
        PROVE  AllExact'
    BY <2>2, EnqueueExact
  <2>3. ASSUME NEW r \in want[c], NEW t \in Tickets, AcquireReuse(c, r, t)
        PROVE  AllExact'
    BY <2>3, <1>1 DEF AcquireReuse, lockVars, ticketVars
  <2>4. CASE \/ WillWaitFor(c) \/ FindNoDeadlock(c) \/ SetVictim(c)
             \/ (\E v \in Contexts : FindVictim(c, v))
             \/ (\E a \in Aborts : WaitAborted(c, a))
             \/ WaitSignalled(c) \/ DoneGranted(c) \/ DoneFailed(c)
    <3>1. UNCHANGED <<lockVars, ticketVars>>
      BY <2>4 DEF WillWaitFor, FindNoDeadlock, SetVictim, FindVictim, WaitAborted,
         WaitSignalled, DoneGranted, DoneFailed
    <3> QED BY <3>1, <1>1 DEF lockVars, ticketVars
  <2>5. CASE Withdraw(c)
    BY <2>5, WithdrawExact
  <2>6. CASE ReleaseLock(c)
    BY <2>6, ReleaseLockExact
  <2>7. CASE RescheduleGrant(c)
    BY <2>7, RescheduleGrantExact
  <2>8. CASE ReschedulePass(c) \/ RescheduleEnd(c)
    <3>1. UNCHANGED <<granted, waiting, gsum, wsum, ticketVars>>
      BY <2>8 DEF ReschedulePass, RescheduleEnd, lockVars
    <3> QED BY <3>1, <1>1 DEF ticketVars
  <2>9. CASE MergeNew(c)
    BY <2>9, MergeNewExact
  <2>10. CASE MergeReused(c)
    <3>1. pc[c] = "merge"
      BY <2>10 DEF MergeReused
    <3>2. PICK o \in Tickets, y \in Types, l \in Locks :
            o = upgrade[c].ticket /\ y = upgrade[c].type /\ l = lockof[o]
      BY <3>1, MergeFacts
    <3>3. o \in granted[l] /\ type[o] \in Types
      BY <3>1, <3>2, MergeFacts
    <3>4. /\ type' = [type EXCEPT ![o] = y]
          /\ gsum' = [gsum EXCEPT ![l] = AddTicket(RemoveTicket(@, type[o]), y)]
          /\ UNCHANGED <<granted, waiting, wsum>>
      BY <2>10, <3>2 DEF MergeReused, UpgradeDone
    <3> QED BY <3>3, <3>4, RetypeExact
  <2> QED BY <1>4, <2>1, <2>2, <2>3, <2>4, <2>5, <2>6, <2>7, <2>8, <2>9, <2>10
       DEF Continue
<1>5. ASSUME NEW c \in Contexts, GiveUp(c) PROVE AllExact'
  <2>1. ASSUME NEW r \in want[c], AcquireNoWait(c, r) PROVE AllExact'
    BY <2>1, <1>1 DEF AcquireNoWait, lockVars, ticketVars
  <2>2. ~WaitDisconnected(c)
    BY DEF WaitDisconnected
  <2> QED BY <1>5, <2>1, <2>2 DEF GiveUp
<1> QED BY <1>2, <1>3, <1>4, <1>5 DEF Next

(* "Bitmap of types of tickets in this list": as long as no wait is given  *)
(* up because the client has gone, the bitmaps and counters that           *)
(* can_grant_lock() decides by agree with m_granted and m_waiting.         *)
THEOREM BitmapsAgree ==
  ASSUME Disconnecting = {}
  PROVE  Spec => []BitmapsTell
<1>1. Init => AllExact
  <2> SUFFICES ASSUME Init, NEW l \in Locks PROVE Exact(l)
    BY DEF AllExact
  <2>1. /\ granted[l] = {} /\ waiting[l] = <<>>
        /\ gsum[l] = EmptySum /\ wsum[l] = EmptySum
    BY DEF Init
  <2>2. ToSet(<<>>) = {}
    BY SetOfNone
  <2>3. Agrees(EmptySum, {}, type)
    BY EmptySummary
  <2> QED BY <2>1, <2>2, <2>3 DEF Exact
<1>2. IInv /\ AllExact /\ [Next]_vars => AllExact'
  BY NextExact
<1>3. IInv /\ AllExact => BitmapsTell
  <2> SUFFICES ASSUME IInv, AllExact, NEW l \in Locks
               PROVE  gsum[l] = Summary(granted[l]) /\ wsum[l] = Summary(ToSet(waiting[l]))
    BY DEF BitmapsTell
  <2>1. ASSUME NEW s \in Sum, NEW G, Agrees(s, G, type) PROVE s = Summary(G)
    <3>1. /\ s.bitmap = {type[t] : t \in G}
          /\ s.count \in [Types -> Int]
          /\ \A y \in Types : s.count[y] = Cardinality({t \in G : type[t] = y})
      BY <2>1 DEF Agrees, Sum, Number
    <3>2. s.count = [y \in Types |-> Cardinality({t \in G : type[t] = y})]
      BY <3>1
    <3>3. s = [bitmap |-> s.bitmap, count |-> s.count]
      BY DEF Sum
    <3> QED BY <3>1, <3>2, <3>3 DEF Summary
  <2>2. gsum[l] \in Sum /\ wsum[l] \in Sum
    BY ExactTypes
  <2>3. Agrees(gsum[l], granted[l], type) /\ Agrees(wsum[l], ToSet(waiting[l]), type)
    BY DEF AllExact, Exact
  <2> QED BY <2>1, <2>2, <2>3
<1> QED BY <1>1, <1>2, <1>3, Invariance, PTL DEF Spec
=============================================================================
