------------------------------ MODULE DnsPool ------------------------------
(***************************************************************************)
(* The DNS thread pool of the command line tool (ipset_dns.c; ipset6_dns.c *)
(* has the same control).  The main thread loads files one after the other *)
(* (ipset_load.c); every hostname it meets is pushed on a stack of         *)
(* requests, from which detached worker threads resolve.  dns_done waits   *)
(* at the end of each file until no request is pending.                    *)
(*                                                                         *)
(* A critical section of one of the two mutexes is one step.  The DNS      *)
(* library may answer anything.  Diagnostics, progress output and the      *)
(* counters that only they read are left out.                              *)
(***************************************************************************)
EXTENDS Integers, Sequences, FiniteSets

CONSTANTS Loads,      \* the requests of each file, named by their hostnames
          Threads,    \* worker threads, as many as dns_threads_max
          Tries,      \* retries of a temporary failure (20 in the code)
          Addresses,  \* addresses a hostname may have
          None        \* no request

Hosts == UNION {{Loads[l][i] : i \in DOMAIN Loads[l]} : l \in DOMAIN Loads}

ASSUME DnsPoolAssumption ==
    /\ Loads \in Seq(Seq(Hosts))
    /\ IsFiniteSet(Threads)
    /\ Tries \in Nat
    /\ None \notin Hosts

VARIABLES requests,  \* dns_requests: the stack, newest first
          tries,     \* host -> d->tries of its request
          pending,   \* dns_requests_pending
          made,      \* dns_requests_made
          failed,    \* dns_replies_failed
          replies,   \* dns_replies
          sets,      \* load -> the addresses added to its ipset
          main,      \* the main thread
          th         \* the worker threads

vars == <<requests, tries, pending, made, failed, replies, sets, main, th>>

Main(pc, load, next, seen, out) ==
    [pc |-> pc, load |-> load, next |-> next, seen |-> seen, out |-> out]
Worker(pc, req, left, added) ==
    [pc |-> pc, req |-> req, left |-> left, added |-> added]
Free(pc) == Worker(pc, None, {}, 0)      \* a worker without a request

Init == /\ requests = <<>>
        /\ tries = [h \in Hosts |-> 0]
        /\ pending = 0 /\ made = 0 /\ failed = 0
        /\ replies = {}
        /\ sets = [l \in DOMAIN Loads |-> {}]
        /\ main = Main("read", 1, 1, 0, "ok")
        /\ th = [t \in Threads |-> Free("none")]

-----------------------------------------------------------------------------
\* The main thread.

Started == {t \in Threads : th[t].pc # "none"}      \* dns_threads
Goto(pc) == main' = Main(pc, main.load, main.next, main.seen, main.out)

\* dns_request fails: ipset_load resets the pool and the program exits.
Abort == main' = Main("reset", main.load, main.next, main.seen, "aborted")

\* dns_process_replies: everything on the list goes into the current ipset.
Collect == /\ sets' = [sets EXCEPT ![main.load] = @ \cup replies]
           /\ replies' = {}

\* ipset_load comes to the next hostname: dns_request up to dns_request_add.
\* There may be no memory for the request.
MRequest ==
    /\ main.pc = "read"
    /\ main.load <= Len(Loads) /\ main.next <= Len(Loads[main.load])
    /\ Collect
    /\ \/ /\ tries' = [tries EXCEPT ![Loads[main.load][main.next]] = Tries]
          /\ Goto("add")
       \/ Abort /\ UNCHANGED tries
    /\ UNCHANGED <<requests, pending, made, failed, th>>

\* dns_request_add, first critical section.
MAdd ==
    /\ main.pc = "add"
    /\ requests' = <<Loads[main.load][main.next]>> \o requests
    /\ pending' = pending + 1
    /\ made' = made + 1
    /\ main' = Main("create", main.load, main.next, pending + 1, main.out)
    /\ UNCHANGED <<tries, failed, replies, sets, th>>

\* A thread is created when more requests were pending than there are threads.
\* The request is taken back when there is no thread at all to serve it.
WantsThread == main.seen > Cardinality(Started) /\ Started # Threads

\* Faulty variant: the request is taken off the stack but stays counted.
MCreateKeepsCount ==
    /\ main.pc = "create"
    /\ \/ /\ ~ WantsThread \/ Started # {}
          /\ Goto("signal")
          /\ UNCHANGED <<requests, th>>
       \/ /\ WantsThread
          /\ \E t \in Threads \ Started : th' = [th EXCEPT ![t] = Free("get")]
          /\ Goto("signal")
          /\ UNCHANGED requests
       \/ /\ WantsThread /\ Started = {}
          /\ requests' = Tail(requests)
          /\ Abort
          /\ UNCHANGED th
    /\ UNCHANGED <<tries, pending, made, failed, replies, sets>>

MCreate ==
    /\ main.pc = "create"
    /\ \/ /\ ~ WantsThread
          /\ Goto("signal")
          /\ UNCHANGED <<requests, pending, made, th>>
       \/ /\ WantsThread
          /\ \E t \in Threads \ Started : th' = [th EXCEPT ![t] = Free("get")]
          /\ Goto("signal")
          /\ UNCHANGED <<requests, pending, made>>
       \/ /\ WantsThread /\ Started # {}
          /\ Goto("signal")
          /\ UNCHANGED <<requests, pending, made, th>>
       \/ /\ WantsThread /\ Started = {}
          /\ requests' = Tail(requests)
          /\ pending' = pending - 1
          /\ made' = made - 1
          /\ Abort
          /\ UNCHANGED th
    /\ UNCHANGED <<tries, failed, replies, sets>>

\* pthread_cond_signal: one waiting thread, if there is one, runs again.
Blocked == {t \in Threads : th[t].pc = "blocked"}
Signal == \/ Blocked = {} /\ UNCHANGED th
          \/ \E t \in Blocked : th' = [th EXCEPT ![t] = Free("wait")]

MSignal ==
    /\ main.pc = "signal"
    /\ Signal
    /\ main' = Main("read", main.load, main.next + 1, main.seen, main.out)
    /\ UNCHANGED <<requests, tries, pending, made, failed, replies, sets>>

\* The end of the file: dns_done.
MDone ==
    /\ main.pc = "read"
    /\ main.load <= Len(Loads) /\ main.next > Len(Loads[main.load])
    /\ Goto(IF made = 0 THEN "reset" ELSE "poll")
    /\ UNCHANGED <<requests, tries, pending, made, failed, replies, sets, th>>

\* Faulty variant: the waiting loop looks at the stack of requests.
MPollQueue ==
    /\ main.pc = "poll"
    /\ Goto(IF requests = <<>> THEN "drain" ELSE "collect")
    /\ UNCHANGED <<requests, tries, pending, made, failed, replies, sets, th>>

MPoll ==
    /\ main.pc = "poll"
    /\ Goto(IF pending = 0 THEN "drain" ELSE "collect")
    /\ UNCHANGED <<requests, tries, pending, made, failed, replies, sets, th>>

MCollect ==
    /\ main.pc = "collect"
    /\ Collect
    /\ Goto("nudge")
    /\ UNCHANGED <<requests, tries, pending, made, failed, th>>

MNudge ==
    /\ main.pc = "nudge"
    /\ Signal
    /\ Goto("poll")
    /\ UNCHANGED <<requests, tries, pending, made, failed, replies, sets>>

\* Faulty variant: the replies that came after the last poll are dropped.
MDrainNothing ==
    /\ main.pc = "drain"
    /\ Goto("report")
    /\ UNCHANGED <<requests, tries, pending, made, failed, replies, sets, th>>

MDrain ==
    /\ main.pc = "drain"
    /\ Collect
    /\ Goto("report")
    /\ UNCHANGED <<requests, tries, pending, made, failed, th>>

\* dns_done fails if a hostname got no address.
MReport ==
    /\ main.pc = "report"
    /\ main' = Main("reset", main.load, main.next, main.seen,
                    IF failed = 0 THEN "ok" ELSE "failed")
    /\ UNCHANGED <<requests, tries, pending, made, failed, replies, sets, th>>

\* dns_reset_stats, in its two critical sections ...
MResetRequests ==
    /\ main.pc = "reset"
    /\ requests' = <<>>
    /\ pending' = 0 /\ made' = 0 /\ failed' = 0
    /\ Goto("reset2")
    /\ UNCHANGED <<tries, replies, sets, th>>

\* ... and on to the next file; a file that cannot be loaded ends the program.
MResetReplies ==
    /\ main.pc = "reset2"
    /\ replies' = {}
    /\ main' = IF main.out # "ok"
               THEN Main("exit", main.load, main.next, main.seen, main.out)
               ELSE Main(IF main.load = Len(Loads) THEN "end" ELSE "read",
                         main.load + 1, 1, main.seen, main.out)
    /\ UNCHANGED <<requests, tries, pending, made, failed, sets, th>>

-----------------------------------------------------------------------------
\* The worker threads.

Become(t, rec) == th' = [th EXCEPT ![t] = rec]
Running == main.pc \notin {"end", "exit"}      \* the process exists

\* dns_request_get: take the newest request, or go and wait for one.
TGet(t) ==
    /\ Running /\ th[t].pc = "get"
    /\ IF requests # <<>>
       THEN /\ Become(t, Worker("resolve", Head(requests), {}, 0))
            /\ requests' = Tail(requests)
       ELSE /\ Become(t, Free("wait"))
            /\ UNCHANGED requests
    /\ UNCHANGED <<tries, pending, made, failed, replies, sets, main>>

\* dns_thread_wait_for_requests, from entry or from a wake-up.
TWait(t) ==
    /\ Running /\ th[t].pc = "wait"
    /\ Become(t, Free(IF requests # <<>> THEN "get" ELSE "blocked"))
    /\ UNCHANGED <<requests, tries, pending, made, failed, replies, sets, main>>

\* getaddrinfo succeeds; the addresses in "left" can be parsed and stored.
TAnswer(t) ==
    /\ Running /\ th[t].pc = "resolve"
    /\ \E found \in SUBSET Addresses :
         Become(t, Worker("reply", th[t].req, found, 0))
    /\ UNCHANGED <<requests, tries, pending, made, failed, replies, sets, main>>

TReply(t) ==
    /\ Running /\ th[t].pc = "reply"
    /\ \E a \in th[t].left :
         /\ replies' = replies \cup {<<th[t].req, a>>}
         /\ Become(t, Worker("reply", th[t].req, th[t].left \ {a}, th[t].added + 1))
    /\ UNCHANGED <<requests, tries, pending, made, failed, sets, main>>

\* dns_request_done.
Finish(t, added) ==
    /\ pending' = pending - 1
    /\ failed' = IF added = 0 THEN failed + 1 ELSE failed
    /\ Become(t, Free("get"))

TDone(t) ==
    /\ Running /\ th[t].pc = "reply" /\ th[t].left = {}
    /\ Finish(t, th[t].added)
    /\ UNCHANGED <<requests, tries, made, replies, sets, main>>

\* Faulty variant: a retried request is counted as finished as well.
TAgainDone(t) ==
    /\ Running /\ th[t].pc = "resolve" /\ tries[th[t].req] > 0
    /\ tries' = [tries EXCEPT ![th[t].req] = @ - 1]
    /\ requests' = <<th[t].req>> \o requests
    /\ pending' = pending - 1
    /\ Become(t, Free("get"))
    /\ UNCHANGED <<made, failed, replies, sets, main>>

\* EAI_AGAIN with tries left: the request goes back on the stack.  Nobody is
\* signalled: this thread will look at the stack itself.
TAgain(t) ==
    /\ Running /\ th[t].pc = "resolve" /\ tries[th[t].req] > 0
    /\ tries' = [tries EXCEPT ![th[t].req] = @ - 1]
    /\ requests' = <<th[t].req>> \o requests
    /\ Become(t, Free("get"))
    /\ UNCHANGED <<pending, made, failed, replies, sets, main>>

\* Faulty variant: an error path forgets dns_request_done.
TFailForgets(t) ==
    /\ Running /\ th[t].pc = "resolve"
    /\ Become(t, Free("get"))
    /\ UNCHANGED <<requests, tries, pending, made, failed, replies, sets, main>>

\* EAI_AGAIN without tries left, and every other error.
TFail(t) ==
    /\ Running /\ th[t].pc = "resolve"
    /\ Finish(t, 0)
    /\ UNCHANGED <<requests, tries, made, replies, sets, main>>

\* POSIX allows pthread_cond_wait to return without a signal.
TSpurious(t) ==
    /\ Running /\ th[t].pc = "blocked"
    /\ Become(t, Free("wait"))
    /\ UNCHANGED <<requests, tries, pending, made, failed, replies, sets, main>>

-----------------------------------------------------------------------------
MainStep == \/ MRequest \/ MAdd \/ MCreate \/ MSignal \/ MDone \/ MPoll
            \/ MCollect \/ MNudge \/ MDrain \/ MReport \/ MResetRequests
            \/ MResetReplies
ThreadStep(t) == \/ TGet(t) \/ TWait(t) \/ TAnswer(t) \/ TReply(t)
                 \/ TDone(t) \/ TAgain(t) \/ TFail(t)

Next == MainStep \/ \E t \in Threads : ThreadStep(t) \/ TSpurious(t)

Spec == Init /\ [][Next]_vars

\* The scheduler runs every thread that can run, and getaddrinfo returns.
FairSpec == Spec /\ WF_vars(MainStep) /\ \A t \in Threads : WF_vars(ThreadStep(t))

-----------------------------------------------------------------------------
\* Properties.

Busy == {t \in Threads : th[t].req # None}      \* threads that hold a request

\* The pending counter that dns_done waits for counts exactly the requests
\* that are on the stack or in a worker's hands, through retries, failed
\* thread creations and resets, so that it neither underflows nor sticks.
\* (The reset after an aborted load does not wait for the workers, and nobody
\* reads the counters after it.)
Abandoned == main.out = "aborted" /\ main.pc \in {"reset2", "exit"}
PendingCounts == ~ Abandoned => pending = Len(requests) + Cardinality(Busy)

\* Between dns_done's last look at the replies and the next file, no worker
\* holds a request and no reply is on its way: nothing arrives late, and
\* dns_reset_stats throws nothing away.
Quiet == main.pc \in {"report", "reset", "reset2", "end"} /\ main.out # "aborted" =>
             requests = <<>> /\ Busy = {} /\ replies = {}

\* What was resolved for one file never ends up in the ipset of another.
OwnAddresses ==
    \A l \in DOMAIN Loads : \A r \in sets[l] :
        \E i \in DOMAIN Loads[l] : r[1] = Loads[l][i]

\* When all files are loaded, every hostname contributed an address: one that
\* failed permanently, on whatever thread and after however many retries,
\* makes its load fail.
AllResolved ==
    main.pc = "end" =>
        \A l \in DOMAIN Loads : \A i \in DOMAIN Loads[l] :
            \E r \in sets[l] : r[1] = Loads[l][i]

\* dns_done returns for every file, or the program exits: no wake-up is lost
\* that the pool needs.
LoadsEnd == <>(main.pc \in {"end", "exit"})

-----------------------------------------------------------------------------
\* The inductive invariant.

MainPcs == {"read", "add", "create", "signal", "poll", "collect", "nudge", "drain",
            "report", "reset", "reset2", "end", "exit"}
ThreadPcs == {"none", "get", "wait", "blocked", "resolve", "reply"}

Outs == {"ok", "failed", "aborted"}
MainType == [pc : MainPcs, load : Nat \ {0}, next : Nat \ {0}, seen : Int, out : Outs]
WorkerType == [pc : ThreadPcs, req : Hosts \cup {None}, left : SUBSET Addresses,
               added : Nat]

\* Type invariant.
TypeOK ==
    /\ requests \in Seq(Hosts)
    /\ tries \in [Hosts -> Nat]
    /\ pending \in Int /\ made \in Int /\ failed \in Int
    /\ main \in MainType
    /\ th \in [Threads -> WorkerType]

\* A worker has a request while it resolves it, and at no other time; dns_done
\* has failed, or a load was aborted, only on the way out; and a request that
\* no thread can have taken is still on the stack.
Control ==
    /\ \A t \in Threads : th[t].req # None <=> th[t].pc \in {"resolve", "reply"}
    /\ main.out # "ok" => main.pc \in {"reset", "reset2", "exit"}
    /\ main.pc = "add" => /\ main.load \in DOMAIN Loads
                          /\ main.next \in DOMAIN Loads[main.load]
    /\ main.pc = "create" /\ Started = {} => requests # <<>>

\* What the counters say of requests and replies.
Settled == {"report", "reset", "reset2", "end"}
Counters ==
    /\ ~ Abandoned => pending = Len(requests) + Cardinality(Busy) /\ pending <= made
    /\ main.out # "aborted" =>
        /\ made = 0 => replies = {}
        /\ main.pc \in Settled \cup {"drain"} => pending = 0
        /\ main.pc \in Settled => replies = {}

PoolInv == TypeOK /\ Control /\ Counters
=============================================================================
