------------------------- MODULE AgentConversation -------------------------
(***************************************************************************)
(* The assistant's conversation in the web view: sending a message,        *)
(* stopping it, writing the conversation of the account that is logged in, *)
(* and changing that account, with the host behind it reduced to what the  *)
(* web view can tell: who is logged in, what is stored, and how the one    *)
(* call in flight ends (AgentRun.tla opens that part up).                  *)
(*                                                                         *)
(* A conversation is a set of things said, each in a session, by a run.    *)
(* The web view is one thread: an action is the code between two awaits.   *)
(* A change of React state renders at once and leaves its effect for later *)
(* (`effect'), with the values of that render; the next render runs the    *)
(* effect of the one before first.                                         *)
(***************************************************************************)
EXTENDS Naturals, Sequences, FiniteSets

CONSTANTS Account,      \* accounts of the machine
          MaxSession,   \* conversations of an account
          MaxRun,       \* messages the user sends
          MaxDelta,     \* pieces an answer streams in (1 or 2)
          MaxFault,     \* writes the database refuses
          MaxQueue,     \* writes waiting when the user acts
          None          \* no account, nothing pending

ASSUME BoundsAssumption ==
  /\ MaxSession \in Nat \ {0} /\ MaxRun \in Nat /\ MaxFault \in Nat
  /\ MaxDelta \in 1 .. 2
  /\ MaxQueue \in Nat \ {0}

Session == Account \X (1 .. MaxSession)
Fresh == <<None, 1>>                       \* the conversation of nobody
Part == {"question", "beginning", "rest", "cut", "answer"}
Said == Session \X (1 .. MaxRun) \X Part
Waiter == {"send", "account", "settle"}
Effect == [account : Account, store : SUBSET Said, running : BOOLEAN]

ASSUME NoneAssumption ==
  None \notin Account \cup Effect \cup [account : Account, store : SUBSET Said]

VARIABLES
  screen,      \* authAccount
  loaded,      \* loadedSessionAccountId
  shown,       \* sessionStore: what the screen shows
  active,      \* sessionStore.activeId
  running,     \* runState = "running"
  effect,      \* the effect of the last render, not run yet
  scheduled,   \* scheduledAgentSessionWrite
  queue,       \* the writes chained on sessionWrites
  failedTail,  \* sessionWrites is rejected
  heard,       \* what a wait for sessionWrites has come to
  send,        \* where runSendMessage is
  run,         \* its run, session, whether it is current, what streamed
  abort,       \* its controller: "none", "ready", "aborted"
  transition,  \* where runAuthenticate or runLogoutAccount is, and for whom
  settle,      \* where the shutdown guard is
  hostAccount, \* ActiveSession in the host
  saved,       \* agent_sessions of each account
  call,        \* the agent_chat call in the host
  cancelling,  \* a cancel_agent_run on its way
  next,        \* number of the next message
  faults       \* writes refused so far

display == <<screen, loaded, shown, active, running>>
writes == <<effect, scheduled, queue>>
sending == <<send, run, abort, next>>
changing == <<transition, settle>>
host == <<hostAccount, saved, call, cancelling, faults>>
vars == <<display, writes, failedTail, heard, sending, changing, host>>

-----------------------------------------------------------------------------
(* What the account of a session is, and what a store holds of it.         *)
Owner(session) == session[1]

NoRun == [n |-> 0, session |-> Fresh, current |-> FALSE, streamed |-> 0, drawn |-> 0]
NoCall == [at |-> "none", cancelled |-> FALSE, ok |-> FALSE]

Init ==
  /\ screen = None /\ loaded = None /\ shown = {} /\ active = Fresh /\ running = FALSE
  /\ effect = None /\ scheduled = None /\ queue = <<>> /\ failedTail = FALSE
  /\ heard = [w \in Waiter |-> "none"]
  /\ send = "idle" /\ run = NoRun /\ abort = "none" /\ next = 1
  /\ transition = [at |-> "none", to |-> None] /\ settle = "none"
  /\ hostAccount = None /\ saved = [a \in Account |-> {}] /\ call = NoCall
  /\ cancelling = FALSE /\ faults = 0

-----------------------------------------------------------------------------
(* The write queue.                                                        *)
Write(account, store, for) == [account |-> account, store |-> store, for |-> for]

Room == Len(queue) < MaxQueue

\* The effect of AgentOverlay on the conversation: the newest store is
\* scheduled for an account that is loaded, and written at once unless a run
\* is streaming into it.
Chained(e, q) == IF e = None \/ e.running THEN q ELSE Append(q, Write(e.account, e.store, {}))
KeepFirst(e, s) == IF s # None THEN s ELSE IF e = None \/ ~e.running THEN None
                   ELSE [account |-> e.account, store |-> e.store]
Delayed(e, s) == IF e = None THEN s
                 ELSE IF e.running THEN [account |-> e.account, store |-> e.store] ELSE None

\* A render with these values: the effect of the render before runs first,
\* after what this step has already chained (q, s).
Render(account, of, store, busy, q, s) ==
  /\ screen' = account /\ loaded' = of /\ shown' = store /\ running' = busy
  /\ queue' = Chained(effect, q) /\ scheduled' = Delayed(effect, s)
  /\ effect' = IF account # None /\ of = account
               THEN [account |-> account, store |-> store, running |-> busy] ELSE None

RunEffect ==
  /\ effect # None
  /\ queue' = Chained(effect, queue) /\ scheduled' = Delayed(effect, scheduled)
  /\ effect' = None
  /\ UNCHANGED <<display, failedTail, heard, sending, changing, host>>

\* flushScheduledAgentSessionWrite: the debounce ends, by time or by a caller.
Flushed == IF scheduled = None THEN queue
           ELSE Append(queue, Write(scheduled.account, scheduled.store, {}))

DebounceEnds ==
  /\ scheduled # None
  /\ queue' = Flushed /\ scheduled' = None
  /\ UNCHANGED <<display, effect, failedTail, heard, sending, changing, host>>

\* flushAgentSessionWrites: a wait for the write that is last now.
Await(w, q) == IF q = <<>> THEN q ELSE [q EXCEPT ![Len(q)].for = @ \cup {w}]
Told(w, q) == [heard EXCEPT ![w] = IF q # <<>> THEN "waiting"
                                   ELSE IF failedTail THEN "failed" ELSE "ok"]

\* A row of agent_sessions keeps its account: the identifiers of sessions are
\* unique in the database, so a store of one account fits into no other.
NeverForeign(w) == FALSE
Foreign(w) == w.account # hostAccount

\* replace_agent_sessions: refused without a login, for sessions that are
\* another account's, and by a database fault.
Refused(w) == hostAccount = None \/ Foreign(w)

ResolveSilently(ok) ==
  /\ queue' = Tail(queue) /\ failedTail' = FALSE
  /\ heard' = [w \in Waiter |-> IF w \in Head(queue).for THEN "ok" ELSE heard[w]]
  /\ UNCHANGED <<display, effect, scheduled, sending, changing,
                 hostAccount, call, cancelling>>

Resolve(ok) ==
  /\ queue' = Tail(queue) /\ failedTail' = ~ok
  /\ heard' = [w \in Waiter |-> IF w \in Head(queue).for
                                THEN (IF ok THEN "ok" ELSE "failed") ELSE heard[w]]
  /\ UNCHANGED <<display, effect, scheduled, sending, changing,
                 hostAccount, call, cancelling>>

WriteSaved ==
  /\ queue # <<>> /\ ~Refused(Head(queue))
  /\ saved' = [saved EXCEPT ![hostAccount] = Head(queue).store]
  /\ Resolve(TRUE) /\ UNCHANGED faults

WriteFails ==
  /\ queue # <<>>
  /\ \/ Refused(Head(queue)) /\ UNCHANGED faults
     \/ ~Refused(Head(queue)) /\ faults < MaxFault /\ faults' = faults + 1
  /\ Resolve(FALSE) /\ UNCHANGED saved

-----------------------------------------------------------------------------
(* runSendMessage.                                                         *)
Free == settle = "none"       \* interactionDisabled, inert while settling

\* The guards: no send of before, no preparation, no account transition, no
\* run, and the conversation of the account loaded.
Send ==
  /\ Free /\ send = "idle" /\ transition.at = "none" /\ ~running
  /\ screen # None /\ loaded = screen /\ next <= MaxRun
  /\ send' = "preparing" /\ next' = next + 1
  /\ run' = [NoRun EXCEPT !.n = next, !.session = active, !.current = TRUE]
  /\ UNCHANGED <<display, writes, failedTail, heard, abort, changing, host>>

Finish == send' = "idle" /\ run' = NoRun

\* Loading references, saving the draft, reading the selected context fails,
\* or the user has moved on: nothing is said.
Abandon ==
  /\ send = "preparing"
  /\ Finish /\ UNCHANGED <<display, writes, failedTail, heard, abort, next, changing, host>>

\* appendSessionMessage and the writes by session id: a store that no longer
\* has the session stays as it is.
With(store, session, parts) ==
  IF Owner(session) = Owner(active)
  THEN store \cup {<<session, run.n, p>> : p \in parts} ELSE store

\* The question is shown, and chained with this send waiting for it.
Ask ==
  /\ send = "preparing" /\ run.current
  /\ LET asked == With(shown, run.session, {"question"})
     IN Render(screen, loaded, asked, running,
               Append(queue, Write(screen, asked, {"send"})), scheduled)
  /\ heard' = [heard EXCEPT !["send"] = "waiting"]
  /\ send' = "storing"
  /\ UNCHANGED <<active, failedTail, run, abort, next, changing, host>>

\* The user moved on meanwhile, the write failed, or a local skill answers.
NotSent ==
  /\ send = "storing" /\ heard["send"] \in {"ok", "failed"}
  /\ heard' = [heard EXCEPT !["send"] = "none"]
  /\ Finish /\ UNCHANGED <<display, writes, failedTail, abort, next, changing, host>>

\* A controller and a run; invokeAgentStream then waits for a timer.
Start ==
  /\ send = "storing" /\ heard["send"] = "ok" /\ run.current
  /\ heard' = [heard EXCEPT !["send"] = "none"]
  /\ abort' = "ready" /\ send' = "starting"
  /\ Render(screen, loaded, shown, TRUE, queue, scheduled)
  /\ UNCHANGED <<active, failedTail, run, next, changing, host>>

\* The timer, and the wait for the conversation's writes.
Flush ==
  /\ send = "starting"
  /\ queue' = Await("send", queue) /\ heard' = Told("send", queue)
  /\ send' = "flushing"
  /\ UNCHANGED <<display, effect, scheduled, failedTail, run, abort, next, changing, host>>

\* agent_chat is sent, and only now the listener is there that tells a stop.
Call ==
  /\ send = "flushing" /\ heard["send"] = "ok"
  /\ heard' = [heard EXCEPT !["send"] = "none"]
  /\ send' = "calling" /\ call' = [NoCall EXCEPT !.at = "sent"]
  /\ UNCHANGED <<display, writes, failedTail, run, abort, next, changing,
                 hostAccount, saved, cancelling, faults>>

\* A delta reaches the screen's copy of the stream, unless stopped.
Delta ==
  /\ send = "calling" /\ call.at = "running" /\ abort # "aborted" /\ run.streamed < MaxDelta
  /\ run' = [run EXCEPT !.streamed = @ + 1]
  /\ UNCHANGED <<display, writes, failedTail, heard, send, abort, next, changing, host>>

Streamed(k) == {p \in {"beginning", "rest"} : k >= (IF p = "rest" THEN 2 ELSE 1)}

\* flushStreamedDelta after 50 ms.
ShowDelta ==
  /\ send = "calling" /\ run.drawn < run.streamed
  /\ Render(screen, loaded, With(shown, run.session, Streamed(run.streamed)),
            running, queue, scheduled)
  /\ run' = [run EXCEPT !.drawn = @ + 1]
  /\ UNCHANGED <<active, failedTail, heard, send, abort, next, changing, host>>

\* The call answers a run that is not stopped: the inbox is read again.
Reply ==
  /\ send = "calling" /\ call.at = "over" /\ call.ok /\ abort # "aborted"
  /\ send' = "refreshing" /\ call' = NoCall
  /\ UNCHANGED <<display, writes, failedTail, heard, run, abort, next, changing,
                 hostAccount, saved, cancelling, faults>>

Done(parts) ==
  /\ Render(screen, loaded, With(shown, run.session, parts), FALSE, queue, scheduled)
  /\ abort' = "none" /\ Finish

\* The result is shown; the loaded inbox is not asked about.
Answer ==
  /\ send = "refreshing"
  /\ Done({"answer"} \cup Streamed(run.streamed))
  /\ UNCHANGED <<active, failedTail, heard, next, changing, host>>

\* A failed flush, an error or a stop: the tail is shown and marked as cut.
Broken ==
  /\ \/ send = "flushing" /\ heard["send"] = "failed"
     \/ send = "calling" /\ call.at = "over" /\ (~call.ok \/ abort = "aborted")
  /\ Done(Streamed(run.streamed) \cup (IF run.streamed > 0 THEN {"cut"} ELSE {}))
  /\ heard' = [heard EXCEPT !["send"] = "none"] /\ call' = NoCall
  /\ UNCHANGED <<active, failedTail, next, changing,
                 hostAccount, saved, cancelling, faults>>

-----------------------------------------------------------------------------
(* Stopping, and leaving the conversation.                                 *)
Aborts == abort = "ready"
AbortNext == abort' = IF Aborts THEN "aborted" ELSE abort
\* The listener of invokeAgentStream is there while the call is out.
CancelNext == cancelling' = (cancelling \/ (Aborts /\ send = "calling"))
Leave(r) == [r EXCEPT !.current = FALSE]

\* cancelRun from the stop button.
Stop ==
  /\ Free /\ Aborts
  /\ AbortNext /\ CancelNext
  /\ Render(screen, loaded, shown, FALSE, queue, scheduled)
  /\ UNCHANGED <<active, failedTail, heard, send, run, next, changing,
                 hostAccount, saved, call, faults>>

\* runSwitchSession, runCreateSession: not while a send prepares or runs.
Preparing == send \in {"preparing", "storing"}
SwitchSession ==
  /\ Free /\ Room /\ ~Preparing /\ ~running /\ screen # None /\ loaded = screen
  /\ \E s \in Session : Owner(s) = screen /\ s # active /\ active' = s
  /\ run' = Leave(run)
  /\ Render(screen, loaded, shown, FALSE, queue, scheduled)
  /\ UNCHANGED <<failedTail, heard, send, abort, next, changing, host>>

\* Login or logout begins: the run is stopped, the writes are waited for.
ChangeAccount ==
  /\ Free /\ Room /\ transition.at = "none"
  /\ \E a \in Account \cup {None} :
       /\ screen # None \/ a # None
       /\ transition' = [at |-> "flushing", to |-> a]
  /\ run' = Leave(run) /\ AbortNext /\ CancelNext
  /\ LET q == Await("account", Flushed)
     IN IF Aborts THEN Render(screen, loaded, shown, FALSE, q, None)
        ELSE /\ queue' = q /\ scheduled' = None
             /\ UNCHANGED <<screen, loaded, shown, running, effect>>
  /\ heard' = Told("account", Flushed)
  /\ UNCHANGED <<active, failedTail, send, next, settle,
                 hostAccount, saved, call, faults>>

\* Mutant: only the host's errors end it.
HostFails ==
  /\ transition.at = "host"
  /\ transition' = [at |-> "none", to |-> None]
  /\ heard' = [heard EXCEPT !["account"] = "none"]
  /\ UNCHANGED <<display, writes, failedTail, sending, settle, host>>

\* A rejected write, or an error of the host, ends the transition.
TransitionFails ==
  /\ \/ transition.at = "flushing" /\ heard["account"] = "failed"
     \/ transition.at = "host"
  /\ transition' = [at |-> "none", to |-> None]
  /\ heard' = [heard EXCEPT !["account"] = "none"]
  /\ UNCHANGED <<display, writes, failedTail, sending, settle, host>>

AskHost ==
  /\ transition.at = "flushing" /\ heard["account"] = "ok"
  /\ transition' = [transition EXCEPT !.at = "host"]
  /\ heard' = [heard EXCEPT !["account"] = "none"]
  /\ UNCHANGED <<display, writes, failedTail, sending, settle, host>>

\* login_account, logout_account: the runs of the old session are cancelled.
HostChanges ==
  /\ transition.at = "host"
  /\ hostAccount' = transition.to
  /\ call' = [call EXCEPT !.cancelled = @ \/ call.at = "running"]
  /\ transition' = [transition EXCEPT !.at = "changed"]
  /\ UNCHANGED <<display, writes, failedTail, heard, sending, settle,
                 saved, cancelling, faults>>

\* runChangeAccount: the screen is emptied, then the writes are waited for,
\* whatever they come to.
Empty ==
  /\ transition.at = "changed"
  /\ LET q == Await("account", Flushed)
     IN Render(transition.to, None, {}, running, q, None)
  /\ active' = Fresh /\ heard' = Told("account", Flushed)
  /\ run' = Leave(run)
  /\ transition' = [transition EXCEPT !.at = "emptied"]
  /\ UNCHANGED <<failedTail, send, abort, next, settle, host>>

\* bootstrap_agent_sessions, or nobody's empty conversation.
Load ==
  /\ transition.at = "emptied" /\ heard["account"] \in {"ok", "failed"}
  /\ heard' = [heard EXCEPT !["account"] = "none"]
  /\ transition' = [at |-> "none", to |-> None]
  /\ IF screen = None
     THEN UNCHANGED <<display, writes>>
     ELSE /\ Render(screen, screen, saved[hostAccount], running, queue, scheduled)
          /\ active' = <<screen, 1>>
  /\ UNCHANGED <<failedTail, sending, settle, host>>

-----------------------------------------------------------------------------
(* The shutdown guard: before an update and before another document.       *)
Settle ==
  /\ Free /\ Room /\ transition.at = "none"
  /\ settle' = "stopping"
  /\ run' = Leave(run) /\ AbortNext /\ CancelNext
  /\ IF Aborts THEN Render(screen, loaded, shown, FALSE, queue, scheduled)
     ELSE UNCHANGED <<screen, loaded, shown, running, writes>>
  /\ UNCHANGED <<active, failedTail, heard, send, next, transition,
                 hostAccount, saved, call, faults>>

\* The send has ended; flushSync runs the effect that is left; the writes.
SettleFlush ==
  /\ settle = "stopping" /\ send = "idle"
  /\ LET q == Chained(effect, queue)
         s == Delayed(effect, scheduled)
         all == IF s = None THEN q ELSE Append(q, Write(s.account, s.store, {}))
     IN /\ queue' = Await("settle", all)
        /\ heard' = Told("settle", all)
  /\ scheduled' = None /\ effect' = None /\ settle' = "flushing"
  /\ UNCHANGED <<display, failedTail, sending, transition, host>>

SettleFails ==
  /\ settle \in {"flushing", "writing"} /\ heard["settle"] = "failed"
  /\ settle' = "none" /\ heard' = [heard EXCEPT !["settle"] = "none"]
  /\ UNCHANGED <<display, writes, failedTail, sending, transition, host>>

\* One more write of what the screen shows, for an account that is loaded.
SettleWrite ==
  /\ settle = "flushing" /\ heard["settle"] = "ok"
  /\ IF screen # None /\ loaded = screen
     THEN /\ settle' = "writing"
          /\ queue' = Append(queue, Write(screen, shown, {"settle"}))
          /\ heard' = [heard EXCEPT !["settle"] = "waiting"]
     ELSE /\ settle' = "settled"
          /\ heard' = [heard EXCEPT !["settle"] = "none"]
          /\ UNCHANGED queue
  /\ UNCHANGED <<display, effect, scheduled, failedTail, sending, transition, host>>

SettleWritten ==
  /\ settle = "writing" /\ heard["settle"] = "ok"
  /\ settle' = "settled" /\ heard' = [heard EXCEPT !["settle"] = "none"]
  /\ UNCHANGED <<display, writes, failedTail, sending, transition, host>>

\* The update is not installed after all, or the document has changed.
Resume ==
  /\ settle = "settled" /\ settle' = "none"
  /\ UNCHANGED <<display, writes, failedTail, heard, sending, transition, host>>

-----------------------------------------------------------------------------
(* The call in the host.                                                   *)
CallStarts ==
  /\ call.at = "sent"
  /\ call' = IF hostAccount = None THEN [call EXCEPT !.at = "over"]
             ELSE [call EXCEPT !.at = "running"]
  /\ UNCHANGED <<display, writes, failedTail, heard, sending, changing,
                 hostAccount, saved, cancelling, faults>>

\* cancel_agent_run: only a run that is registered can be cancelled.
CancelArrives ==
  /\ cancelling /\ cancelling' = FALSE
  /\ call' = [call EXCEPT !.cancelled = @ \/ call.at = "running"]
  /\ UNCHANGED <<display, writes, failedTail, heard, sending, changing,
                 hostAccount, saved, faults>>

CallEnds ==
  /\ call.at = "running"
  /\ \E ok \in (IF call.cancelled THEN {FALSE} ELSE BOOLEAN) :
       call' = [call EXCEPT !.at = "over", !.ok = ok]
  /\ UNCHANGED <<display, writes, failedTail, heard, sending, changing,
                 hostAccount, saved, cancelling, faults>>

-----------------------------------------------------------------------------
SendSteps == Abandon \/ Ask \/ NotSent \/ Start \/ Flush \/ Call \/ Reply \/ Answer \/ Broken
WriteSteps == RunEffect \/ DebounceEnds \/ WriteSaved \/ WriteFails
AccountSteps == TransitionFails \/ AskHost \/ HostChanges \/ Empty \/ Load
SettleSteps == SettleFlush \/ SettleFails \/ SettleWrite \/ SettleWritten
CallSteps == CallStarts \/ CancelArrives \/ CallEnds
UserSteps == Send \/ Stop \/ SwitchSession \/ ChangeAccount \/ Settle \/ Resume

Next == SendSteps \/ Delta \/ ShowDelta \/ WriteSteps \/ AccountSteps \/ SettleSteps
        \/ CallSteps \/ UserSteps

Spec == Init /\ [][Next]_vars

\* Timers, promises and the host's calls go on; the user owes nothing.
FairSpec == Spec /\ WF_vars(SendSteps) /\ WF_vars(WriteSaved \/ WriteFails)
                 /\ WF_vars(RunEffect) /\ WF_vars(AccountSteps) /\ WF_vars(SettleSteps)
                 /\ WF_vars(CallStarts) /\ WF_vars(CallEnds)

-----------------------------------------------------------------------------
Stores == SUBSET Said
Writes == [account : Account, store : Stores, for : SUBSET Waiter]

TypeOK ==
  /\ screen \in Account \cup {None} /\ loaded \in Account \cup {None}
  /\ shown \in Stores /\ active \in Session \cup {Fresh} /\ running \in BOOLEAN
  /\ effect = None \/ effect \in Effect
  /\ scheduled = None \/ scheduled \in [account : Account, store : Stores]
  /\ queue \in Seq(Writes) /\ failedTail \in BOOLEAN
  /\ heard \in [Waiter -> {"none", "waiting", "ok", "failed"}]
  /\ send \in {"idle", "preparing", "storing", "starting", "flushing", "calling", "refreshing"}
  /\ run \in [n : 0 .. MaxRun, session : Session \cup {Fresh}, current : BOOLEAN,
              streamed : 0 .. MaxDelta, drawn : 0 .. MaxDelta]
  /\ abort \in {"none", "ready", "aborted"} /\ next \in 1 .. MaxRun + 1
  /\ transition \in [at : {"none", "flushing", "host", "changed", "emptied"},
                     to : Account \cup {None}]
  /\ settle \in {"none", "stopping", "flushing", "writing", "settled"}
  /\ hostAccount \in Account \cup {None} /\ saved \in [Account -> Stores]
  /\ call \in [at : {"none", "sent", "running", "over"},
               cancelled : BOOLEAN, ok : BOOLEAN]
  /\ cancelling \in BOOLEAN /\ faults \in 0 .. MaxFault

\* A conversation stays with its account: what the host keeps for an account,
\* and what the screen shows once it is loaded, was said in its sessions.
AccountsStayApart ==
  /\ \A a \in Account : \A m \in saved[a] : Owner(m[1]) = a
  /\ loaded # None => loaded = screen /\ Owner(active) = loaded
                      /\ \A m \in shown : Owner(m[1]) = loaded

\* Everything a run says is said in the session of its question, whatever
\* session the user has turned to after stopping it.
OneSessionPerRun ==
  \A a \in Account : \A m \in saved[a] \cup shown :
    \E q \in saved[a] \cup shown : q[1] = m[1] /\ q[2] = m[2] /\ q[3] = "question"

\* Nothing that is said or kept crosses from one conversation to another.
ConversationsStayApart == AccountsStayApart /\ OneSessionPerRun

\* A message goes to the host's model only when its question is stored
\* (the order runSendMessage keeps for the sake of a crash).
AskedBeforeAnswered ==
  call.at = "running" =>
    <<run.session, run.n, "question">> \in saved[Owner(run.session)]

\* When nothing is under way and the last write was not refused, the account
\* on the screen is stored as the screen shows it: the debounce loses nothing.
QuietMeansStored ==
  (/\ screen # None /\ loaded = screen /\ hostAccount = screen
   /\ effect = None /\ scheduled = None /\ queue = <<>> /\ ~failedTail)
  => saved[screen] = shown

\* The shutdown guard lets an update or another document through only when no
\* call of this window is out and the conversation is stored to the last word.
SettledMeansStored ==
  settle = "settled" =>
    /\ send = "idle" /\ call.at = "none"
    /\ (loaded # None => saved[loaded] = shown)

\* No word of a conversation is lost while the program runs on.
NothingSaidIsLost == QuietMeansStored /\ SettledMeansStored

\* Every send ends and gives the input back; every change of account and
\* every shutdown ends, with or without success.
EveryWaitEnds ==
  /\ (send # "idle") ~> (send = "idle")
  /\ (transition.at # "none") ~> (transition.at = "none")
  /\ (settle = "stopping") ~> (settle \in {"none", "settled"})

=============================================================================
