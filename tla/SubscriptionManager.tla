------------------------ MODULE SubscriptionManager ------------------------
(***************************************************************************)
(* storage.SubscriptionManager (internal/storage/subscriptionmgr.go): the  *)
(* channel between a policy store and the subscribers of its events, the   *)
(* goroutine that drains it, and the goroutines that notify.               *)
(*                                                                         *)
(* An event is the pair <<notifier, k>>, the k-th event of that notifier,  *)
(* or Nop.  A subscriber is abstracted to the sequence of events it got.   *)
(***************************************************************************)
EXTENDS Naturals, FiniteSets, SequencesExt

CONSTANTS
    Subscriber,         \* the subscribers
    Notifier,           \* the goroutines that notify them
    Nop,                \* EventNop; also "no notifier waits for this batch"
    EventBufferSize,    \* capacity of eventChan
    MaxEvents,          \* Notifier -> bound on the events it makes
    MaxSubscriptions    \* bound on the calls of Subscribe and Unsubscribe

ASSUME SubscriptionAssumption ==
    /\ Nop \notin Notifier
    /\ EventBufferSize \in Nat
    /\ MaxEvents \in [Notifier -> Nat]
    /\ MaxSubscriptions \in Nat

VARIABLES
    eventChan,      \* the buffered batches: their events and who waits for done
    subscribers,    \* the subscribed subscribers
    stopped,        \* the lifecycle context is cancelled
    handler,        \* the goroutine running handleEvents
    caller,         \* each notifier's current call
    made,           \* how many events each notifier has made
    changes,        \* how often Subscribe and Unsubscribe were called
    accepted,       \* history: the events put into eventChan, in order
    seen,           \* history: what each subscriber got since it subscribed
    from            \* history: accepted events distributed before it subscribed

vars == <<eventChan, subscribers, stopped, handler, caller, made, changes,
          accepted, seen, from>>

Events == UNION {{n} \X (1 .. MaxEvents[n]) : n \in Notifier}
Idle == [pc |-> "idle", events |-> <<>>, wait |-> FALSE, call |-> 0,
         done |-> FALSE, err |-> "nil", upto |-> 0]

TypeOK ==
    /\ Len(eventChan) <= EventBufferSize
    /\ \A i \in DOMAIN eventChan :
          /\ eventChan[i].events \in Seq(Events)
          /\ eventChan[i].events # <<>>
          /\ eventChan[i].done \in (Notifier \X Nat) \cup {Nop}
    /\ subscribers \subseteq Subscriber
    /\ stopped \in BOOLEAN
    /\ handler.pc \in {"select", "next", "deliver", "exited"}
    /\ handler.events \in Seq(Events)
    /\ handler.to \subseteq Subscriber
    /\ \A n \in Notifier :
          /\ caller[n].pc \in {"idle", "sending", "waiting", "returned"}
          /\ caller[n].events \in Seq(Events)
          /\ caller[n].err \in {"nil", "ctx", "stopped"}
    /\ \A n \in Notifier : made[n] \in 0 .. MaxEvents[n]
    /\ changes \in 0 .. MaxSubscriptions
    /\ accepted \in Seq(Events)
    /\ seen \in [Subscriber -> Seq(Events)]
    /\ from \in [Subscriber -> Nat]

Init ==
    /\ eventChan = <<>>
    /\ subscribers = {}
    /\ stopped = FALSE
    /\ handler = [pc |-> "select", events |-> <<>>, done |-> Nop, to |-> {}]
    /\ caller = [n \in Notifier |-> Idle]
    /\ made = [n \in Notifier |-> 0]
    /\ changes = 0
    /\ accepted = <<>>
    /\ seen = [s \in Subscriber |-> <<>>]
    /\ from = [s \in Subscriber |-> 0]

-----------------------------------------------------------------------------
(* The context given to NewSubscriptionManager is cancelled.               *)
Stop ==
    /\ ~stopped
    /\ stopped' = TRUE
    /\ UNCHANGED <<eventChan, subscribers, handler, caller, made, changes,
                   accepted, seen, from>>

(* A call is made with one event, with two, or with one and a Nop.         *)
Calls(n) ==
    LET e(k) == <<n, made[n] + k>>
    IN  {<<e(1)>>, <<e(1), e(2)>>, <<Nop, e(1)>>}

withoutNopEvents(evts) == SelectSeq(evts, LAMBDA e : e # Nop)

(* A batch without events is answered at once, with nil.                   *)
StartCall(n, evts, wait) ==
    LET events == withoutNopEvents(evts)
    IN  /\ caller[n].pc = "idle"
        /\ made[n] + Len(events) <= MaxEvents[n]
        /\ caller' = [caller EXCEPT ![n] =
              [Idle EXCEPT !.pc = IF events = <<>> THEN "returned" ELSE "sending",
                           !.events = events, !.wait = wait, !.call = made[n]]]
        /\ made' = [made EXCEPT ![n] = @ + Len(events)]
        /\ UNCHANGED <<eventChan, subscribers, stopped, handler, changes, accepted,
                       seen, from>>

(* With nothing but Nops it does nothing.                                  *)
NotifySubscribers(n) == \E evts \in Calls(n) : StartCall(n, evts, FALSE)

NotifySubscribersAndWait(n) ==
    \E evts \in Calls(n) \cup {<<Nop>>} : StartCall(n, evts, TRUE)

(* What is put into eventChan by the next send of n: one event, or the     *)
(* whole batch together with its done channel.                             *)
ToSend(n) ==
    IF caller[n].wait
    THEN [events |-> caller[n].events, done |-> <<n, caller[n].call>>]
    ELSE [events |-> <<Head(caller[n].events)>>, done |-> Nop]

(* A waiting call goes on to its second select, the other one to its next  *)
(* event or back to its caller.                                            *)
AfterSend(n, upto) ==
    CASE caller[n].wait -> [caller[n] EXCEPT !.pc = "waiting", !.upto = upto]
      [] Len(caller[n].events) > 1 -> [caller[n] EXCEPT !.events = Tail(@)]
      [] OTHER -> Idle

Returned(n, err) == [caller EXCEPT ![n].pc = "returned", ![n].err = err]

(* Mutant: a full buffer drops the event instead of blocking.              *)
SendOrDrop(n) ==
    /\ caller[n].pc = "sending"
    /\ IF Len(eventChan) < EventBufferSize
       THEN eventChan' = Append(eventChan, ToSend(n))
       ELSE UNCHANGED eventChan
    /\ accepted' = accepted \o ToSend(n).events
    /\ caller' = [caller EXCEPT ![n] = AfterSend(n, Len(accepted'))]
    /\ UNCHANGED <<subscribers, stopped, handler, made, changes, seen, from>>

(* Mutant: the send does not look at the capacity of the channel.          *)
SendUnbounded(n) ==
    /\ caller[n].pc = "sending"
    /\ eventChan' = Append(eventChan, ToSend(n))
    /\ accepted' = accepted \o ToSend(n).events
    /\ caller' = [caller EXCEPT ![n] = AfterSend(n, Len(accepted'))]
    /\ UNCHANGED <<subscribers, stopped, handler, made, changes, seen, from>>

(* case sm.eventChan <- eventBatch{...}: blocks while the buffer is full.  *)
Send(n) ==
    /\ caller[n].pc = "sending"
    /\ Len(eventChan) < EventBufferSize
    /\ eventChan' = Append(eventChan, ToSend(n))
    /\ accepted' = accepted \o ToSend(n).events
    /\ caller' = [caller EXCEPT ![n] = AfterSend(n, Len(accepted'))]
    /\ UNCHANGED <<subscribers, stopped, handler, made, changes, seen, from>>

(* case <-done                                                             *)
Done(n) ==
    /\ caller[n].pc = "waiting"
    /\ caller[n].done
    /\ caller' = Returned(n, "nil")
    /\ UNCHANGED <<eventChan, subscribers, stopped, handler, made, changes,
                   accepted, seen, from>>

(* case <-ctx.Done(): the caller's own context, only when it waits.        *)
CtxDone(n) ==
    /\ caller[n].wait
    /\ caller[n].pc \in {"sending", "waiting"}
    /\ caller' = Returned(n, "ctx")
    /\ UNCHANGED <<eventChan, subscribers, stopped, handler, made, changes,
                   accepted, seen, from>>

(* Mutant: the send does not select on sm.stopped.                         *)
NotifyStoppedWaiting(n) ==
    /\ stopped
    /\ caller[n].pc = "waiting"
    /\ caller' = Returned(n, "stopped")
    /\ UNCHANGED <<eventChan, subscribers, stopped, handler, made, changes,
                   accepted, seen, from>>

(* case <-sm.stopped, at either select.                                    *)
NotifyStopped(n) ==
    /\ stopped
    /\ caller[n].pc \in {"sending", "waiting"}
    /\ caller' = Returned(n, "stopped")
    /\ UNCHANGED <<eventChan, subscribers, stopped, handler, made, changes,
                   accepted, seen, from>>

Return(n) ==
    /\ caller[n].pc = "returned"
    /\ caller' = [caller EXCEPT ![n] = Idle]
    /\ UNCHANGED <<eventChan, subscribers, stopped, handler, made, changes,
                   accepted, seen, from>>
-----------------------------------------------------------------------------
(* Mutant: handleEvents returns as soon as the channel is empty.           *)
HandlerExits ==
    /\ handler.pc = "select"
    /\ eventChan = <<>>
    /\ handler' = [handler EXCEPT !.pc = "exited"]
    /\ UNCHANGED <<eventChan, subscribers, stopped, caller, made, changes,
                   accepted, seen, from>>

(* handleEvents: case <-sm.stopped                                         *)
HandlerStopped ==
    /\ stopped
    /\ handler.pc = "select"
    /\ handler' = [handler EXCEPT !.pc = "exited"]
    /\ UNCHANGED <<eventChan, subscribers, stopped, caller, made, changes,
                   accepted, seen, from>>

(* handleEvents: case batch := <-sm.eventChan                              *)
Receive ==
    /\ handler.pc = "select"
    /\ eventChan # <<>>
    /\ handler' = [pc |-> "next", events |-> Head(eventChan).events,
                   done |-> Head(eventChan).done, to |-> {}]
    /\ eventChan' = Tail(eventChan)
    /\ UNCHANGED <<subscribers, stopped, caller, made, changes, accepted, seen,
                   from>>

(* distributeEvent takes the read lock and walks the subscribers ...       *)
BeginDistribute ==
    /\ handler.pc = "next"
    /\ handler.events # <<>>
    /\ handler' = [handler EXCEPT !.pc = "deliver", !.to = subscribers]
    /\ UNCHANGED <<eventChan, subscribers, stopped, caller, made, changes,
                   accepted, seen, from>>

(* ... in any order, one OnStorageEvent after the other ...                *)
OnStorageEvent(s) ==
    /\ handler.pc = "deliver"
    /\ s \in handler.to
    /\ seen' = [seen EXCEPT ![s] = Append(@, Head(handler.events))]
    /\ handler' = [handler EXCEPT !.to = @ \ {s}]
    /\ UNCHANGED <<eventChan, subscribers, stopped, caller, made, changes,
                   accepted, from>>

(* ... and gives the lock back.                                            *)
EndDistribute ==
    /\ handler.pc = "deliver"
    /\ handler.to = {}
    /\ handler' = [handler EXCEPT !.pc = "next", !.events = Tail(@)]
    /\ UNCHANGED <<eventChan, subscribers, stopped, caller, made, changes,
                   accepted, seen, from>>

(* close(batch.done); a notifier that has returned does not see it.        *)
Closes(n) == handler.done = <<n, caller[n].call>> /\ caller[n].pc = "waiting"

(* Mutant: done is closed when the batch is taken from the channel.        *)
BatchDoneEarly ==
    /\ handler.pc = "next"
    /\ caller' = [n \in Notifier |->
                    IF Closes(n) THEN [caller[n] EXCEPT !.done = TRUE] ELSE caller[n]]
    /\ handler' = IF handler.events = <<>> THEN [handler EXCEPT !.pc = "select"]
                  ELSE [handler EXCEPT !.pc = "deliver", !.to = subscribers]
    /\ UNCHANGED <<eventChan, subscribers, stopped, made, changes, accepted, seen,
                   from>>

BatchDone ==
    /\ handler.pc = "next"
    /\ handler.events = <<>>
    /\ caller' = [n \in Notifier |->
                    IF Closes(n) THEN [caller[n] EXCEPT !.done = TRUE] ELSE caller[n]]
    /\ handler' = [handler EXCEPT !.pc = "select", !.done = Nop]
    /\ UNCHANGED <<eventChan, subscribers, stopped, made, changes, accepted, seen,
                   from>>

(* How many accepted events have been distributed to the end.              *)
Distributed ==
    Len(accepted) - Len(handler.events)
        - FoldLeft(LAMBDA sum, b : sum + Len(b.events), 0, eventChan)

(* sm.mu is free for a writer: the handler is not inside distributeEvent.  *)
Unlocked == handler.pc # "deliver"

Subscribe(s) ==
    /\ Unlocked
    /\ changes < MaxSubscriptions
    /\ changes' = changes + 1
    /\ subscribers' = subscribers \cup {s}
    /\ IF s \in subscribers
       THEN UNCHANGED <<seen, from>>
       ELSE from' = [from EXCEPT ![s] = Distributed] /\ UNCHANGED seen
    /\ UNCHANGED <<eventChan, stopped, handler, caller, made, accepted>>

(* Mutant: Unsubscribe does not wait for the distribution in progress.     *)
UnsubscribeUnlocked(s) ==
    /\ changes < MaxSubscriptions
    /\ changes' = changes + 1
    /\ subscribers' = subscribers \ {s}
    /\ seen' = [seen EXCEPT ![s] = <<>>]
    /\ from' = [from EXCEPT ![s] = 0]
    /\ UNCHANGED <<eventChan, stopped, handler, caller, made, accepted>>

Unsubscribe(s) ==
    /\ Unlocked
    /\ changes < MaxSubscriptions
    /\ changes' = changes + 1
    /\ subscribers' = subscribers \ {s}
    /\ seen' = [seen EXCEPT ![s] = <<>>]
    /\ from' = [from EXCEPT ![s] = 0]
    /\ UNCHANGED <<eventChan, stopped, handler, caller, made, accepted>>

Notify(n) ==
    \/ NotifySubscribers(n) \/ NotifySubscribersAndWait(n) \/ Send(n)
    \/ Done(n) \/ CtxDone(n) \/ NotifyStopped(n) \/ Return(n)

HandleEvents ==
    \/ HandlerStopped \/ Receive \/ BeginDistribute
    \/ (\E s \in Subscriber : OnStorageEvent(s))
    \/ EndDistribute \/ BatchDone

Next ==
    \/ Stop
    \/ HandleEvents
    \/ \E n \in Notifier : Notify(n)
    \/ \E s \in Subscriber : Subscribe(s) \/ Unsubscribe(s)

(* The handler runs, and a goroutine in a call takes any case of its       *)
(* select that stays ready; nobody has to call, cancel or stop.            *)
Fairness ==
    /\ WF_vars(HandleEvents)
    /\ \A n \in Notifier :
          WF_vars(Send(n) \/ Done(n) \/ NotifyStopped(n))

Spec == Init /\ [][Next]_vars /\ Fairness
-----------------------------------------------------------------------------
(* Every subscriber gets every event accepted since it subscribed, once    *)
(* and in the order of acceptance (NotifySubscribers: "Dropping events     *)
(* could compromise consistency with a storage since updates are deltas"). *)
InOrderExactlyOnce ==
    \A s \in subscribers :
        seen[s] = SubSeq(accepted, from[s] + 1,
                         IF handler.pc = "deliver" /\ s \notin handler.to
                         THEN Distributed + 1 ELSE Distributed)

(* NotifySubscribersAndWait returns nil only after every subscriber has    *)
(* processed the batch and everything queued ahead of it.                  *)
NilMeansProcessed ==
    \A n \in Notifier :
        caller[n].pc = "returned" /\ caller[n].wait /\ caller[n].err = "nil" =>
            \A s \in subscribers : \A i \in from[s] + 1 .. caller[n].upto :
                accepted[i] \in ToSet(seen[s])

(* Once Unsubscribe has returned the subscriber gets no further event.     *)
SilentAfterUnsubscribe ==
    [][\A s \in Subscriber : Len(seen'[s]) > Len(seen[s]) => s \in subscribers]_vars

(* A notifier is released: by room in the buffer, by the end of its batch, *)
(* or by the stop of the manager.                                          *)
NotifierReleased ==
    \A n \in Notifier :
        caller[n].pc \in {"sending", "waiting"} ~> caller[n].pc \in {"returned", "idle"}

(* Unless the manager stops, every accepted event is distributed.          *)
EventuallyDistributed ==
    \A k \in 1 .. Cardinality(Events) :
        Len(accepted) >= k ~> Distributed >= k \/ stopped
=============================================================================
