--------------------------- MODULE DnsPoolProofs ---------------------------
(***************************************************************************)
(* The DNS pool for any number of files, hostnames, threads and retries:   *)
(* the pending counter is exact and the pool is quiet between two files.   *)
(***************************************************************************)
EXTENDS DnsPool, FiniteSetTheorems, TLAPS

\* The states of the main thread and of a worker, put together and taken
\* apart.
LEMMA MainTyped ==
  /\ \A pc \in MainPcs, load \in Nat \ {0}, next \in Nat \ {0}, seen \in Int, out \in Outs :
       /\ Main(pc, load, next, seen, out) \in MainType
       /\ Main(pc, load, next, seen, out).pc = pc
       /\ Main(pc, load, next, seen, out).load = load
       /\ Main(pc, load, next, seen, out).next = next
       /\ Main(pc, load, next, seen, out).out = out
  /\ \A m \in MainType : /\ m.pc \in MainPcs /\ m.load \in Nat \ {0} /\ m.next \in Nat \ {0}
                         /\ m.seen \in Int /\ m.out \in Outs
  BY DEF Main, MainType

\* A worker's state: the request it holds is a hostname, or there is none.
LEMMA WorkerTyped ==
  /\ \A pc \in ThreadPcs, req \in Hosts \cup {None}, left \in SUBSET Addresses,
        added \in Nat :
       /\ Worker(pc, req, left, added) \in WorkerType
       /\ Worker(pc, req, left, added).pc = pc
       /\ Worker(pc, req, left, added).req = req
  /\ \A pc \in ThreadPcs : /\ Free(pc) \in WorkerType
                           /\ Free(pc).pc = pc /\ Free(pc).req = None
  /\ \A x \in WorkerType : /\ x.pc \in ThreadPcs /\ x.req \in Hosts \cup {None}
                           /\ x.left \in SUBSET Addresses /\ x.added \in Nat
  BY DEF Worker, Free, WorkerType

\* Pushing on the stack of requests and popping from it.
LEMMA StackTyped ==
  ASSUME NEW s \in Seq(Hosts)
  PROVE  /\ Len(s) \in Nat
         /\ s = <<>> <=> Len(s) = 0
         /\ \A h \in Hosts : <<h>> \o s \in Seq(Hosts) /\ Len(<<h>> \o s) = Len(s) + 1
         /\ s # <<>> => /\ Head(s) \in Hosts /\ Tail(s) \in Seq(Hosts)
                        /\ Len(Tail(s)) = Len(s) - 1
  OBVIOUS

\* The set of busy workers is finite, and counts change by one with it.
LEMMA BusyFinite == IsFiniteSet(Busy) /\ Cardinality(Busy) \in Nat
  BY DnsPoolAssumption, FS_Subset, FS_CardinalityType DEF Busy

\* dns_request_get makes one more worker busy.
LEMMA BusyGrows ==
  ASSUME NEW t \in Threads, th[t].req = None, th' = [th EXCEPT ![t] = th'[t]],
         th'[t].req # None, TypeOK
  PROVE  Cardinality(Busy') = Cardinality(Busy) + 1
<1>1. Busy' = Busy \cup {t}
  BY DEF Busy, TypeOK
<1>2. t \notin Busy
  BY DEF Busy
<1> QED
  BY <1>1, <1>2, BusyFinite, FS_AddElement

\* dns_request_done, and a retry, make one worker less busy.
LEMMA BusyShrinks ==
  ASSUME NEW t \in Threads, th[t].req # None, th' = [th EXCEPT ![t] = th'[t]],
         th'[t].req = None, TypeOK
  PROVE  Cardinality(Busy') = Cardinality(Busy) - 1
<1>1. Busy' = Busy \ {t}
  BY DEF Busy, TypeOK
<1>2. t \in Busy
  BY DEF Busy
<1> QED
  BY <1>1, <1>2, BusyFinite, FS_RemoveElement

\* Every other step of a worker leaves the busy workers alone.
LEMMA BusySame ==
  ASSUME NEW t \in Threads, th' = [th EXCEPT ![t] = th'[t]],
         th'[t].req = th[t].req, TypeOK
  PROVE  Busy' = Busy
  BY DEF Busy, TypeOK

-----------------------------------------------------------------------------
\* The pool before the first file satisfies the invariant.
LEMMA InitPoolInv == Init => PoolInv
<1> SUFFICES ASSUME Init PROVE PoolInv
  OBVIOUS
<1>1. /\ Main("read", 1, 1, 0, "ok") \in MainType
      /\ main.pc = "read" /\ main.out = "ok"
  BY MainTyped DEF Init, MainPcs, Outs
<1>2. Free("none") \in WorkerType /\ Free("none").req = None /\ Free("none").pc = "none"
  BY WorkerTyped DEF ThreadPcs
<1>3. TypeOK
  BY <1>1, <1>2 DEF Init, TypeOK
<1>4. Control
  BY <1>1, <1>2 DEF Init, Control
<1>5. Busy = {}
  BY <1>2 DEF Init, Busy
<1>6. Counters
  BY <1>1, <1>5, FS_EmptySet DEF Init, Counters, Abandoned, Settled
<1> QED
  BY <1>3, <1>4, <1>6 DEF PoolInv

\* One step changes one worker.
LEMMA OneWorker ==
  ASSUME NEW t \in Threads, NEW x \in WorkerType, TypeOK, th' = [th EXCEPT ![t] = x]
  PROVE  /\ th' \in [Threads -> WorkerType]
         /\ th'[t] = x
         /\ th' = [th EXCEPT ![t] = th'[t]]
         /\ \A u \in Threads \ {t} : th'[u] = th[u]
  BY DEF TypeOK

\* pthread_cond_signal leaves every worker's request alone.
LEMMA SignalKeeps ==
  ASSUME TypeOK, Control, Signal
  PROVE  /\ th' \in [Threads -> WorkerType]
         /\ \A t \in Threads : th'[t].req # None <=> th'[t].pc \in {"resolve", "reply"}
         /\ Busy' = Busy
<1>1. CASE Blocked = {} /\ UNCHANGED th
  BY <1>1 DEF TypeOK, Control, Busy
<1>2. CASE \E t \in Blocked : th' = [th EXCEPT ![t] = Free("wait")]
  <2> PICK t \in Blocked : th' = [th EXCEPT ![t] = Free("wait")]
    BY <1>2
  <2>1. t \in Threads /\ th[t].pc = "blocked" /\ Free("wait") \in WorkerType
    BY WorkerTyped DEF Blocked, ThreadPcs
  <2>2. th[t].req = None /\ Free("wait").req = None /\ Free("wait").pc = "wait"
    BY <2>1, WorkerTyped DEF Control, ThreadPcs
  <2>3. /\ th' \in [Threads -> WorkerType] /\ th'[t] = Free("wait")
        /\ th' = [th EXCEPT ![t] = th'[t]]
        /\ \A u \in Threads \ {t} : th'[u] = th[u]
    BY <2>1, OneWorker
  <2>4. Busy' = Busy
    BY <2>1, <2>2, <2>3, BusySame
  <2>5. \A u \in Threads : th'[u].req # None <=> th'[u].pc \in {"resolve", "reply"}
    BY <2>2, <2>3 DEF Control
  <2> QED
    BY <2>3, <2>4, <2>5
<1> QED
  BY <1>1, <1>2 DEF Signal

-----------------------------------------------------------------------------
\* dns_request up to dns_request_add: nothing but replies and tries change.
LEMMA RequestStep == ASSUME PoolInv, MRequest PROVE PoolInv'
<1> USE DEF PoolInv
<1>1. /\ \/ main'.pc = "add" /\ main'.out = main.out
         \/ main'.pc = "reset" /\ main'.out = "aborted"
      /\ main' \in MainType /\ main'.load = main.load /\ main'.next = main.next
  BY DEF Main, MainType, MRequest, Goto, Abort, TypeOK, MainPcs, Outs
<1>2. main.load \in DOMAIN Loads /\ main.next \in DOMAIN Loads[main.load]
  BY DnsPoolAssumption DEF MainType, MRequest, TypeOK
<1>3. main.out = "ok" /\ main.pc = "read"
  BY DEF MRequest, Control
<1>4. TypeOK'
  BY <1>1, DnsPoolAssumption DEF MRequest, Collect, TypeOK
<1>5. Control'
  BY <1>1, <1>2, <1>3 DEF MRequest, Control
<1>6. Busy' = Busy
  BY DEF MRequest, Busy
<1>7. Counters'
  BY <1>1, <1>3, <1>6 DEF MRequest, Collect, Counters, Abandoned, Settled
<1> QED
  BY <1>4, <1>5, <1>7

\* dns_request_add: one more request on the stack, and one more pending.
LEMMA AddStep == ASSUME PoolInv, MAdd PROVE PoolInv'
<1> USE DEF PoolInv
<1>1. /\ main'.pc = "create" /\ main'.out = main.out /\ main' \in MainType
  BY DEF Main, MainType, MAdd, TypeOK, MainPcs, Outs
<1>2. Loads[main.load][main.next] \in Hosts
  BY DEF MAdd, Control, Hosts
<1>3. requests' \in Seq(Hosts) /\ Len(requests') = Len(requests) + 1 /\ Len(requests) \in Nat
  BY <1>2, StackTyped DEF MAdd, TypeOK
<1>4. TypeOK'
  BY <1>1, <1>3 DEF MAdd, TypeOK
<1>5. main.out = "ok"
  BY DEF MAdd, Control
<1>6. Control'
  BY <1>1, <1>5 DEF MAdd, Control
<1>7. Busy' = Busy
  BY DEF MAdd, Busy
<1>8. Counters'
  BY <1>1, <1>3, <1>5, <1>7, BusyFinite DEF MAdd, Counters, Abandoned, Settled, TypeOK
<1> QED
  BY <1>4, <1>6, <1>8

\* A thread is created, or not; a request that nobody can serve is taken back
\* and the load is aborted.
LEMMA CreateStep == ASSUME PoolInv, MCreate PROVE PoolInv'
<1> USE DEF PoolInv
<1>1. main.pc = "create" /\ main.out = "ok"
  BY DEF MCreate, Control
<1>2. CASE /\ Goto("signal")
           /\ UNCHANGED <<requests, pending, made, th>>
  <2>1. main'.pc = "signal" /\ main'.out = "ok" /\ main' \in MainType
    BY <1>1, <1>2 DEF Main, MainType, Goto, TypeOK, MainPcs, Outs
  <2>2. TypeOK' /\ Control'
    BY <1>2, <2>1 DEF MCreate, TypeOK, Control
  <2>3. Busy' = Busy
    BY <1>2 DEF Busy
  <2>4. Counters'
    BY <1>1, <1>2, <2>1, <2>3 DEF MCreate, Counters, Abandoned, Settled
  <2> QED
    BY <2>2, <2>4
<1>3. CASE /\ \E t \in Threads \ Started : th' = [th EXCEPT ![t] = Free("get")]
           /\ Goto("signal")
           /\ UNCHANGED <<requests, pending, made>>
  <2>1. main'.pc = "signal" /\ main'.out = "ok" /\ main' \in MainType
    BY <1>1, <1>3 DEF Main, MainType, Goto, TypeOK, MainPcs, Outs
  <2> PICK t \in Threads \ Started : th' = [th EXCEPT ![t] = Free("get")]
    BY <1>3
  <2>2. Free("get") \in WorkerType /\ Free("get").req = None /\ Free("get").pc = "get"
    BY WorkerTyped DEF ThreadPcs
  <2>3. th[t].req = None
    BY DEF Started, Control
  <2>4. TypeOK' /\ Control'
    BY <1>3, <2>1, <2>2, OneWorker DEF MCreate, TypeOK, Control
  <2>5. Busy' = Busy
    BY <2>2, <2>3, OneWorker, BusySame
  <2>6. Counters'
    BY <1>1, <1>3, <2>1, <2>5 DEF MCreate, Counters, Abandoned, Settled
  <2> QED
    BY <2>4, <2>6
<1>4. CASE /\ Started = {}
           /\ requests' = Tail(requests)
           /\ pending' = pending - 1
           /\ made' = made - 1
           /\ Abort
           /\ UNCHANGED th
  <2>1. main'.pc = "reset" /\ main'.out = "aborted" /\ main' \in MainType
    BY <1>4 DEF Main, MainType, Abort, TypeOK, MainPcs, Outs
  <2>2. requests # <<>>
    BY <1>1, <1>4 DEF Control
  <2>3. TypeOK'
    BY <1>4, <2>1, <2>2, StackTyped DEF MCreate, TypeOK
  <2>4. Len(requests') = Len(requests) - 1 /\ Len(requests) \in Nat
    BY <1>4, <2>2, StackTyped DEF TypeOK
  <2>5. Cardinality(Busy') = Cardinality(Busy) /\ Cardinality(Busy) \in Nat
    BY <1>4, BusyFinite DEF Busy
  <2>6. pending = Len(requests) + Cardinality(Busy) /\ pending <= made
    BY <1>1 DEF Counters, Abandoned
  <2>7. pending' = Len(requests') + Cardinality(Busy') /\ pending' <= made'
    <3>1. pending \in Int /\ made \in Int
      BY DEF TypeOK
    <3>2. pending' = pending - 1 /\ made' = made - 1
      BY <1>4
    <3> HIDE DEF PoolInv
    <3> QED
      BY <2>4, <2>5, <2>6, <3>1, <3>2
  <2>8. Counters'
    BY <2>1, <2>7 DEF Counters
  <2> QED
    BY <1>4, <2>1, <2>3, <2>8 DEF Control
<1> QED
  BY <1>2, <1>3, <1>4 DEF MCreate

\* pthread_cond_signal, in dns_request_add and in dns_done's waiting loop.
LEMMA SignalStep == ASSUME PoolInv, MSignal \/ MNudge PROVE PoolInv'
<1> USE DEF PoolInv
<1>1. /\ main'.pc \in {"read", "poll"} /\ main'.out = "ok" /\ main.out = "ok"
      /\ main' \in MainType
  BY DEF Main, MainType, MSignal, MNudge, Goto, Control, TypeOK, MainPcs, Outs
<1>2. /\ Signal
      /\ UNCHANGED <<requests, tries, pending, made, failed, replies, sets>>
  BY DEF MSignal, MNudge
<1>3. TypeOK' /\ Control'
  BY <1>1, <1>2, SignalKeeps DEF TypeOK, Control
<1>4. Counters'
  BY <1>1, <1>2, SignalKeeps DEF Counters, Abandoned, Settled
<1> QED
  BY <1>3, <1>4

\* A step of the main thread that leaves the stack, the counters and the
\* workers alone preserves the invariant if what it finds at its new place
\* holds there.
LEMMA MoveStep ==
  ASSUME PoolInv, main' \in MainType, main.out = "ok",
         main'.pc \notin {"add", "create"},
         main'.out # "ok" => main'.pc = "reset",
         main'.pc \in Settled \cup {"drain"} => pending = 0,
         main'.pc \in Settled => replies' = {},
         replies' \in {replies, {}},
         UNCHANGED <<requests, tries, pending, made, failed, th>>
  PROVE  PoolInv'
<1> USE DEF PoolInv
<1>1. TypeOK'
  BY DEF TypeOK
<1>2. Control'
  BY DEF Control, Settled
<1>3. Busy' = Busy
  BY DEF Busy
<1>4. Counters'
  BY <1>3 DEF Counters, Abandoned
<1> QED
  BY <1>1, <1>2, <1>4

\* dns_done: with nothing made there is nothing pending and no reply.
LEMMA DoneStep == ASSUME PoolInv, MDone PROVE PoolInv'
<1> USE DEF PoolInv
<1>1. main.out = "ok" /\ main.pc = "read"
  BY DEF MDone, Control
<1>2. /\ main' \in MainType /\ main'.out = "ok"
      /\ main'.pc = IF made = 0 THEN "reset" ELSE "poll"
  BY <1>1 DEF Main, MainType, MDone, Goto, TypeOK, MainPcs, Outs
<1>3. made = 0 => pending = 0 /\ replies = {}
  BY <1>1, StackTyped, BusyFinite DEF Counters, Abandoned, TypeOK
<1> QED
  BY <1>1, <1>2, <1>3, MoveStep DEF MDone, Settled

\* dns_done's waiting loop, its last look at the replies, and its verdict.
LEMMA WaitStep == ASSUME PoolInv, MPoll \/ MCollect \/ MDrain \/ MReport PROVE PoolInv'
<1> USE DEF PoolInv
<1>1. main.out = "ok"
  BY DEF MPoll, MCollect, MDrain, MReport, Control
<1>2. CASE MPoll
  <2>1. /\ main' \in MainType /\ main'.out = "ok"
        /\ main'.pc = IF pending = 0 THEN "drain" ELSE "collect"
    BY <1>1, <1>2 DEF Main, MainType, MPoll, Goto, TypeOK, MainPcs, Outs
  <2> QED
    BY <1>1, <1>2, <2>1, MoveStep DEF MPoll, Settled
<1>3. CASE MCollect
  <2>1. main' \in MainType /\ main'.out = "ok" /\ main'.pc = "nudge"
    BY <1>1, <1>3 DEF Main, MainType, MCollect, Goto, TypeOK, MainPcs, Outs
  <2> QED
    BY <1>1, <1>3, <2>1, MoveStep DEF MCollect, Collect, Settled
<1>4. CASE MDrain
  <2>1. main' \in MainType /\ main'.out = "ok" /\ main'.pc = "report"
    BY <1>1, <1>4 DEF Main, MainType, MDrain, Goto, TypeOK, MainPcs, Outs
  <2>2. pending = 0
    BY <1>1, <1>4 DEF MDrain, Counters, Abandoned
  <2> QED
    BY <1>1, <1>4, <2>1, <2>2, MoveStep DEF MDrain, Collect, Settled
<1>5. CASE MReport
  <2>1. main' \in MainType /\ main'.pc = "reset"
    BY <1>5 DEF Main, MainType, MReport, TypeOK, MainPcs, Outs
  <2>2. pending = 0 /\ replies = {}
    BY <1>1, <1>5 DEF MReport, Counters, Abandoned, Settled
  <2> QED
    BY <1>1, <1>5, <2>1, <2>2, MoveStep DEF MReport, Settled
<1> QED
  BY <1>2, <1>3, <1>4, <1>5

\* dns_reset_stats: with nothing pending no worker is busy, so that the
\* counters may start again at zero; then comes the next file, or the end.
LEMMA ResetStep == ASSUME PoolInv, MResetRequests \/ MResetReplies PROVE PoolInv'
<1> USE DEF PoolInv
<1>1. Busy' = Busy
  BY DEF MResetRequests, MResetReplies, Busy
<1>2. CASE MResetRequests
  <2>1. main' \in MainType /\ main'.out = main.out /\ main'.pc = "reset2"
    BY <1>2 DEF Main, MainType, MResetRequests, Goto, TypeOK, MainPcs, Outs
  <2>2. TypeOK' /\ Control'
    BY <1>2, <2>1 DEF MResetRequests, TypeOK, Control
  <2>3. main.out # "aborted" => Cardinality(Busy) = 0 /\ replies = {}
    BY <1>2, StackTyped, BusyFinite DEF MResetRequests, Counters, Abandoned, Settled, TypeOK
  <2>4. Counters'
    BY <1>1, <1>2, <2>1, <2>3 DEF MResetRequests, Counters, Abandoned
  <2> QED
    BY <2>2, <2>4
<1>3. CASE MResetReplies
  <2>1. /\ main' \in MainType /\ main'.out = main.out
        /\ main'.pc \in {"read", "end", "exit"}
        /\ main.out # "ok" => main'.pc = "exit"
    BY <1>3 DEF Main, MainType, MResetReplies, TypeOK, MainPcs, Outs
  <2>2. TypeOK' /\ Control'
    BY <1>3, <2>1 DEF MResetReplies, TypeOK, Control
  <2>3. Counters'
    BY <1>1, <1>3, <2>1 DEF MResetReplies, Counters, Abandoned, Settled
  <2> QED
    BY <2>2, <2>3
<1> QED
  BY <1>2, <1>3

-----------------------------------------------------------------------------
\* A worker that goes on to a state of its program keeps types and control.
LEMMA WorkerKeeps ==
  ASSUME PoolInv, NEW t \in Threads, NEW x \in WorkerType, Become(t, x),
         x.pc # "none", x.req # None <=> x.pc \in {"resolve", "reply"},
         requests' \in Seq(Hosts), tries' \in [Hosts -> Nat],
         pending' \in Int, failed' \in Int, UNCHANGED <<made, main>>
  PROVE  /\ TypeOK' /\ Control'
         /\ th'[t] = x /\ th' = [th EXCEPT ![t] = th'[t]]
<1>1. TypeOK /\ Control
  BY DEF PoolInv
<1>2. /\ th' \in [Threads -> WorkerType] /\ th'[t] = x
      /\ th' = [th EXCEPT ![t] = th'[t]]
      /\ \A u \in Threads \ {t} : th'[u] = th[u]
  BY <1>1, OneWorker DEF Become
<1>3. TypeOK'
  BY <1>1, <1>2 DEF TypeOK
<1>4. Started' # {}
  BY <1>2 DEF Started
<1>5. Control'
  BY <1>1, <1>2, <1>4 DEF Control
<1> QED
  BY <1>2, <1>3, <1>5

\* While a worker holds a request, something is pending.
LEMMA BusyPending ==
  ASSUME PoolInv, NEW t \in Threads, th[t].req # None, main.out # "aborted"
  PROVE  pending > 0 /\ made > 0
<1>1. t \in Busy
  BY DEF Busy
<1>2. Cardinality(Busy) # 0
  BY <1>1, BusyFinite, FS_EmptySet
<1> QED
  BY <1>2, BusyFinite, StackTyped DEF PoolInv, Counters, Abandoned, TypeOK

\* dns_request_get: a request moves from the stack into the worker's hands.
LEMMA GetStep == ASSUME PoolInv, NEW t \in Threads, TGet(t) PROVE PoolInv'
<1>1. TypeOK /\ Control /\ Counters
  BY DEF PoolInv
<1>2. th[t].req = None
  BY <1>1 DEF TGet, Control
<1>3. CASE requests # <<>>
  <2> DEFINE x == Worker("resolve", Head(requests), {}, 0)
  <2>1. /\ Head(requests) \in Hosts /\ requests' \in Seq(Hosts)
        /\ Len(requests') = Len(requests) - 1
    BY <1>1, <1>3, StackTyped DEF TGet, TypeOK
  <2>2. x \in WorkerType /\ x.pc = "resolve" /\ x.req = Head(requests)
    BY <2>1 DEF Worker, WorkerType, ThreadPcs
  <2>3. x.req # None /\ Become(t, x)
    BY <1>3, <2>1, <2>2, DnsPoolAssumption DEF TGet
  <2> HIDE DEF x
  <2>4. TypeOK' /\ Control' /\ th'[t] = x /\ th' = [th EXCEPT ![t] = th'[t]]
    BY <1>1, <2>1, <2>2, <2>3, WorkerKeeps DEF TGet, TypeOK
  <2>5. Cardinality(Busy') = Cardinality(Busy) + 1
    BY <1>1, <1>2, <2>3, <2>4, BusyGrows
  <2>6. ~ Abandoned => pending' = Len(requests') + Cardinality(Busy') /\ pending' <= made'
    BY <1>1, <2>1, <2>5, BusyFinite, StackTyped DEF TGet, Counters, TypeOK
  <2>7. Counters'
    BY <1>1, <2>6 DEF TGet, Counters, Abandoned
  <2> QED
    BY <2>4, <2>7 DEF PoolInv
<1>4. CASE requests = <<>>
  <2>1. /\ Free("wait") \in WorkerType /\ Free("wait").pc = "wait"
        /\ Free("wait").req = None
    BY WorkerTyped DEF ThreadPcs
  <2>2. Become(t, Free("wait")) /\ UNCHANGED requests
    BY <1>4 DEF TGet
  <2>3. TypeOK' /\ Control' /\ th'[t] = Free("wait") /\ th' = [th EXCEPT ![t] = th'[t]]
    BY <1>1, <2>1, <2>2, WorkerKeeps DEF TGet, TypeOK
  <2>4. Busy' = Busy
    BY <1>1, <1>2, <2>1, <2>3, BusySame
  <2>5. Counters'
    BY <1>1, <2>2, <2>4 DEF TGet, Counters, Abandoned
  <2> QED
    BY <2>3, <2>5 DEF PoolInv
<1> QED
  BY <1>3, <1>4

\* Waiting for requests, and being woken without a signal.
LEMMA IdleStep == ASSUME PoolInv, NEW t \in Threads, TWait(t) \/ TSpurious(t) PROVE PoolInv'
<1>1. TypeOK /\ Control /\ Counters
  BY DEF PoolInv
<1>2. th[t].req = None /\ UNCHANGED <<requests, tries, pending, made, failed, replies, main>>
  BY <1>1 DEF TWait, TSpurious, Control
<1>3. PICK pc \in {"get", "blocked", "wait"} : Become(t, Free(pc))
  BY DEF TWait, TSpurious
<1>4. Free(pc) \in WorkerType /\ Free(pc).pc = pc /\ Free(pc).req = None
  BY WorkerTyped DEF ThreadPcs
<1>5. TypeOK' /\ Control' /\ th'[t] = Free(pc) /\ th' = [th EXCEPT ![t] = th'[t]]
  BY <1>1, <1>2, <1>3, <1>4, WorkerKeeps DEF TypeOK
<1>6. Busy' = Busy
  BY <1>1, <1>2, <1>4, <1>5, BusySame
<1>7. Counters'
  BY <1>1, <1>2, <1>6 DEF Counters, Abandoned
<1> QED
  BY <1>5, <1>7 DEF PoolInv

\* An answer arrives and is put on the list of replies, address by address,
\* while its request is still pending.
LEMMA AnswerStep == ASSUME PoolInv, NEW t \in Threads, TAnswer(t) \/ TReply(t) PROVE PoolInv'
<1>1. TypeOK /\ Control /\ Counters
  BY DEF PoolInv
<1>2. th[t].req # None /\ UNCHANGED <<requests, tries, pending, made, failed, main>>
  BY <1>1 DEF TAnswer, TReply, Control
<1>3. /\ th[t].req \in Hosts \cup {None} /\ th[t].left \in SUBSET Addresses
      /\ th[t].added \in Nat
  BY <1>1, WorkerTyped DEF TypeOK
<1>4. PICK left \in SUBSET Addresses, added \in Nat :
        Become(t, Worker("reply", th[t].req, left, added))
  <2>1. CASE TAnswer(t)
    BY <2>1 DEF TAnswer
  <2>2. CASE TReply(t)
    <3>1. PICK a \in th[t].left :
            Become(t, Worker("reply", th[t].req, th[t].left \ {a}, th[t].added + 1))
      BY <2>2 DEF TReply
    <3>2. th[t].left \ {a} \in SUBSET Addresses /\ th[t].added + 1 \in Nat
      BY <1>3
    <3> QED
      BY <3>1, <3>2
  <2> QED
    BY <2>1, <2>2
<1> DEFINE x == Worker("reply", th[t].req, left, added)
<1>5. x \in WorkerType /\ x.pc = "reply" /\ x.req = th[t].req
  BY <1>3 DEF Worker, WorkerType, ThreadPcs
<1>6. Become(t, x)
  BY <1>4
<1> HIDE DEF x
<1>7. TypeOK' /\ Control' /\ th'[t] = x /\ th' = [th EXCEPT ![t] = th'[t]]
  BY <1>1, <1>2, <1>5, <1>6, WorkerKeeps DEF TypeOK
<1>8. Busy' = Busy
  BY <1>1, <1>5, <1>7, BusySame
<1>9. Counters'
  BY <1>1, <1>2, <1>8, BusyPending DEF Counters, Abandoned, Settled, TypeOK
<1> QED
  BY <1>7, <1>9 DEF PoolInv

\* The worker lets go of its request: it is finished and no longer pending, or
\* it is back on the stack for another try.
LEMMA LetGoStep ==
  ASSUME PoolInv, NEW t \in Threads, TDone(t) \/ TFail(t) \/ TAgain(t)
  PROVE  PoolInv'
<1>1. TypeOK /\ Control /\ Counters
  BY DEF PoolInv
<1>2. /\ th[t].req # None /\ th[t].req \in Hosts
      /\ Become(t, Free("get")) /\ UNCHANGED <<made, replies, main>>
  <2>1. th[t].req # None
    BY <1>1 DEF TDone, TFail, TAgain, Control
  <2>2. th[t].req \in Hosts
    BY <1>1, <2>1, WorkerTyped DEF TypeOK
  <2> QED
    BY <2>1, <2>2 DEF TDone, TFail, TAgain, Finish
<1>3. /\ Free("get") \in WorkerType /\ Free("get").pc = "get"
      /\ Free("get").req = None
  BY WorkerTyped DEF ThreadPcs
<1>4. \/ /\ UNCHANGED <<requests, tries>> /\ pending' = pending - 1
         /\ failed' \in {failed, failed + 1}
      \/ /\ UNCHANGED <<pending, failed>> /\ requests' = <<th[t].req>> \o requests
         /\ tries[th[t].req] > 0
         /\ tries' = [tries EXCEPT ![th[t].req] = @ - 1]
  BY DEF TDone, TFail, TAgain, Finish
<1>5. /\ Len(requests) \in Nat
      /\ <<th[t].req>> \o requests \in Seq(Hosts)
      /\ Len(<<th[t].req>> \o requests) = Len(requests) + 1
  BY <1>1, <1>2, StackTyped DEF TypeOK
<1>6. /\ requests' \in Seq(Hosts) /\ tries' \in [Hosts -> Nat]
      /\ pending' \in Int /\ failed' \in Int
      /\ pending' - Len(requests') = pending - Len(requests) - 1 /\ pending' <= pending
  <2>1. CASE /\ UNCHANGED <<requests, tries>> /\ pending' = pending - 1
             /\ failed' \in {failed, failed + 1}
    BY <1>1, <1>5, <2>1 DEF TypeOK
  <2>2. CASE /\ UNCHANGED <<pending, failed>> /\ requests' = <<th[t].req>> \o requests
             /\ tries[th[t].req] > 0
             /\ tries' = [tries EXCEPT ![th[t].req] = @ - 1]
    <3>1. tries[th[t].req] - 1 \in Nat
      BY <1>1, <1>2, <2>2 DEF TypeOK
    <3>2. tries' \in [Hosts -> Nat]
      BY <1>1, <2>2, <3>1 DEF TypeOK
    <3> QED
      BY <1>1, <1>5, <2>2, <3>2 DEF TypeOK
  <2> QED
    BY <1>4, <2>1, <2>2
<1>7. TypeOK' /\ Control' /\ th'[t] = Free("get") /\ th' = [th EXCEPT ![t] = th'[t]]
  BY <1>2, <1>3, <1>6, WorkerKeeps
<1>8. Cardinality(Busy') = Cardinality(Busy) - 1
  BY <1>1, <1>2, <1>3, <1>7, BusyShrinks
<1>9. Len(requests) \in Nat /\ Len(requests') \in Nat /\ Cardinality(Busy) \in Nat
  BY <1>1, <1>6, StackTyped, BusyFinite DEF TypeOK
<1>10. ~ Abandoned => pending' = Len(requests') + Cardinality(Busy') /\ pending' <= made'
  <2>1. ~ Abandoned => pending = Len(requests) + Cardinality(Busy) /\ pending <= made
    BY <1>1 DEF Counters
  <2>2. made' = made /\ made \in Int /\ pending \in Int
    BY <1>1, <1>2 DEF TypeOK
  <2> QED
    BY <2>1, <2>2, <1>6, <1>8, <1>9
<1>11. main.out # "aborted" => main.pc \notin Settled \cup {"drain"}
  BY <1>1, <1>2, BusyPending DEF Counters
<1>12. Counters'
  BY <1>1, <1>2, <1>10, <1>11 DEF Counters, Abandoned
<1> QED
  BY <1>7, <1>12 DEF PoolInv

-----------------------------------------------------------------------------
\* The invariant depends on the pool's variables only.
LEMMA StutterStep == ASSUME PoolInv, UNCHANGED vars PROVE PoolInv'
  BY DEF PoolInv, TypeOK, Control, Counters, Abandoned, Busy, Started, vars

\* Types, the main thread's and the workers' control, and the counters, at
\* every step of every interleaving.
THEOREM PoolInvariant == Spec => []PoolInv
<1>1. PoolInv /\ [Next]_vars => PoolInv'
  <2> SUFFICES ASSUME PoolInv, [Next]_vars PROVE PoolInv'
    OBVIOUS
  <2>1. CASE MainStep
    BY <2>1, RequestStep, AddStep, CreateStep, SignalStep, DoneStep, WaitStep, ResetStep
       DEF MainStep
  <2>2. CASE \E t \in Threads : ThreadStep(t) \/ TSpurious(t)
    BY <2>2, GetStep, IdleStep, AnswerStep, LetGoStep DEF ThreadStep
  <2>3. CASE UNCHANGED vars
    BY <2>3, StutterStep
  <2> QED
    BY <2>1, <2>2, <2>3 DEF Next
<1> QED
  BY <1>1, InitPoolInv, PTL DEF Spec

\* dns_requests_pending is the number of requests on the stack or in a
\* worker's hands: dns_done waits for all of them and for nothing else.
THEOREM PendingExact == Spec => []PendingCounts
<1>1. PoolInv => PendingCounts
  BY DEF PoolInv, Counters, Abandoned, PendingCounts
<1> QED
  BY <1>1, PoolInvariant, PTL

\* Between two files the pool is quiet: no request, no busy worker, no reply
\* that the next file would get or that dns_reset_stats would throw away.
THEOREM PoolQuiet == Spec => []Quiet
<1>1. PoolInv => Quiet
  <2> SUFFICES ASSUME PoolInv, main.pc \in Settled, main.out # "aborted"
               PROVE  requests = <<>> /\ Busy = {} /\ replies = {}
    BY DEF Quiet, Settled
  <2>1. pending = 0 /\ replies = {} /\ pending = Len(requests) + Cardinality(Busy)
    BY DEF PoolInv, Counters, Abandoned
  <2>2. Len(requests) = 0 /\ Cardinality(Busy) = 0
    BY <2>1, StackTyped, BusyFinite DEF PoolInv, TypeOK
  <2> QED
    BY <2>1, <2>2, StackTyped, BusyFinite, FS_EmptySet DEF PoolInv, TypeOK
<1> QED
  BY <1>1, PoolInvariant, PTL
=============================================================================
