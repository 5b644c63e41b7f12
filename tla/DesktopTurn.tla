----------------------------- MODULE DesktopTurn -----------------------------
(***************************************************************************)
(* The turns of one workbench session that runs in the desktop client.     *)
(*   apps/worker/src/desktop-agent.ts  what the server does for a request  *)
(*   apps/web/src/desktop-agent.ts     the turn as the client runs it      *)
(*   apps/worker/src/workbench.ts      who schedules a turn                *)
(*   apps/web/src/components/Workbench.tsx  when a page starts one         *)
(* A client claims the scheduled turn, appends its messages one by one to  *)
(* the transcript, has the server execute the tools the model calls, and   *)
(* ends the turn.  A request is checked when it arrives and takes effect   *)
(* in later steps, so it may outlive the page that sent it.                *)
(***************************************************************************)
EXTENDS Naturals, Sequences

CONSTANTS Clients, None,
          Emits,       \* may the agent library report the result of a tool that
                       \* ends the turn as a message?  a subset of BOOLEAN
          MaxMessages, \* turns of the session after which its member sends no message
          MaxTurns,    \* scheduled turns
          MaxRuns,     \* claims
          MaxCalls,    \* tool calls the model makes
          MaxUpsets    \* reloads, sleeping clients, lost requests, failing servers

ASSUME DesktopAssumption ==
    /\ None \notin Clients /\ None \notin {"running", "complete", "failed"}
    /\ Emits \subseteq BOOLEAN /\ Emits # {}
    /\ {MaxMessages, MaxTurns, MaxRuns, MaxCalls, MaxUpsets} \subseteq Nat

VARIABLES
    session,     \* the columns of agent_sessions a desktop turn uses
    transcript,  \* agent_sessions.transcript
    calls,       \* desktop_agent_tool_calls
    pages,       \* what the page of each client is doing
    requests,    \* requests the server has accepted and not finished
    coming,      \* the turn that is being scheduled: the second statement of its caller
    turns, runs, used, upsets

vars == <<session, transcript, calls, pages, requests, coming, turns, runs, used, upsets>>
counts == <<turns, runs, used>>

Calls == 1..MaxCalls
Ending == {"ask", "wait"}     \* tools whose result says terminate
Idle == [pc |-> "off", run |-> 0, next |-> 0, role |-> None, call |-> 0, ok |-> FALSE,
         replay |-> FALSE, strict |-> FALSE, stop |-> FALSE, failed |-> FALSE]

Init ==
    /\ session = [status |-> "idle", trigger |-> None, start |-> 0, run |-> 0, client |-> None,
                  live |-> FALSE, waiting |-> 0, cancelled |-> FALSE]
    /\ transcript = <<>>
    /\ calls = [k \in Calls |-> [kind |-> None, state |-> None, turn |-> 0, live |-> FALSE,
                             ran |-> 0, cut |-> 0]]
    /\ pages = [c \in Clients |-> Idle]
    /\ requests = {}
    /\ coming = None
    /\ turns = 0 /\ runs = 0 /\ used = 0 /\ upsets = 0

Upset == upsets < MaxUpsets /\ upsets' = upsets + 1

-----------------------------------------------------------------------------
(* Scheduling a turn.  Its caller sets the session to running first.        *)

Schedule(status, trigger) ==
    /\ turns < MaxTurns /\ coming = None
    /\ turns' = turns + 1
    /\ session' = [session EXCEPT !.status = status]
    /\ coming' = trigger
    /\ UNCHANGED <<transcript, calls, pages, requests, runs, used, upsets>>

SendMessage ==
    /\ session.status \notin {"running", "waiting_user"} /\ ~session.cancelled
    /\ turns < MaxMessages
    /\ Schedule("running", "user")

AnswerQuestion ==
    /\ session.status = "waiting_user" /\ session.waiting # 0
    /\ Schedule("running", "answer")

(* The coordinator, when what a session waits for is done.                  *)
Wake ==
    /\ session.status = "waiting_job" /\ session.waiting # 0
    /\ Schedule("running", "resume")

ScheduleSessionTurn ==
    /\ coming # None
    /\ session' = [session EXCEPT !.trigger = coming, !.start = Len(transcript),
                                  !.run = 0, !.client = None, !.live = FALSE]
    /\ coming' = None
    /\ UNCHANGED <<transcript, calls, pages, requests, counts, upsets>>

Released(s) ==
    [s EXCEPT !.trigger = None, !.start = 0, !.run = 0, !.client = None, !.live = FALSE]

CancelSession ==
    /\ session.status \in {"running", "waiting_user", "waiting_job", "idle"}
    /\ session' = [Released(session) EXCEPT !.status = "failed", !.waiting = 0, !.cancelled = TRUE]
    /\ UNCHANGED <<transcript, calls, pages, requests, coming, counts, upsets>>

-----------------------------------------------------------------------------
(* What the server asks of every request of a run.  A run belongs to one    *)
(* client, so its number stands for run and client.                         *)

Holds(run) == session.run = run /\ session.live /\ ~session.cancelled

(* Mutant of Current: whichever run the session has.                       *)
CurrentClient(r) == session.run # 0

(* The condition of the UPDATEs that end a request.                         *)
Current(r) == session.run = r.run

Outstanding(c) == {r \in requests : r.heard /\ r.run = pages[c].run}
PageTo(c, p) == pages' = [pages EXCEPT ![c] = p]

(* The page after a message was saved or refused; only a continued or       *)
(* replayed turn looks at the outcome before it goes on.                    *)
AfterMessage(p, ok) ==
    [p EXCEPT !.next = @ + 1, !.failed = @ \/ ~ok, !.strict = FALSE, !.stop = FALSE,
              !.role = None, !.ok = FALSE,
              !.pc = IF p.strict /\ ~ok THEN "end"
                     ELSE IF p.pc = "say" THEN IF p.call = 0 THEN "end" ELSE "call"
                     ELSE IF p.stop THEN "end" ELSE "think"]

(* The page after a tool: its result is told to the model, and a tool that  *)
(* ends the turn stops the agent loop, but not the loop of a replay.        *)
AfterTool(p, ok) ==
    IF ok /\ calls[p.call].kind \in Ending /\ ~p.replay
    THEN {[p EXCEPT !.pc = IF told THEN "tell" ELSE "end", !.ok = ok, !.stop = TRUE] : told \in Emits}
    ELSE {[p EXCEPT !.pc = "tell", !.ok = ok]}

(* The page after whatever it was waiting for failed.                       *)
AfterError(p) ==
    CASE p.pc \in {"first", "say", "tell"} -> {AfterMessage(p, FALSE)}
      [] p.pc = "call" -> AfterTool(p, FALSE)
      [] p.pc = "think" -> {[p EXCEPT !.failed = TRUE, !.pc = "end"]}
      [] OTHER -> {Idle}

Answered(r, outcomes) ==
    \/ ~r.heard /\ UNCHANGED pages
    \/ \E c \in Clients : /\ r \in Outstanding(c)
                          /\ \E p \in outcomes[c] : PageTo(c, p)

-----------------------------------------------------------------------------
(* Claiming: the row is read, and written in a later statement by id only.  *)

Last == transcript[Len(transcript)]

(* The calls of the last message of the model that have no result yet.      *)
Spoken == {i \in 1..Len(transcript) : transcript[i].role = "assistant"}
Missing ==
    {k \in Calls : \E i \in Spoken : /\ transcript[i].call = k
                                     /\ \A j \in Spoken : j <= i
                                     /\ \A j \in i..Len(transcript) : ~(/\ transcript[j].role \in {"answer", "toolResult"}
                                                                        /\ transcript[j].call = k)}

(* Where the client takes the turn up, from the transcript it was given.    *)
(* An answer is the result of the call that asked: a toolResult of its own. *)
Start(p) ==
    LET fresh == Len(transcript) = session.start
        answers == transcript # <<>> /\ Last.role = "assistant" /\ session.waiting # 0
    IN  IF fresh /\ session.trigger = "user" THEN [p EXCEPT !.pc = "first", !.role = "user"]
        ELSE IF fresh
        THEN [p EXCEPT !.pc = "first", !.strict = TRUE,
                       !.role = IF answers THEN "answer" ELSE "user",
                       !.call = IF answers THEN session.waiting ELSE 0, !.ok = TRUE]
        ELSE IF Missing # {}
        THEN [p EXCEPT !.pc = "call", !.call = CHOOSE k \in Missing : TRUE, !.replay = TRUE, !.strict = TRUE]
        ELSE [p EXCEPT !.pc = IF Last.role = "assistant" THEN "end" ELSE "think"]

(* Mutant of Claimable: a run that nobody continues keeps the turn.         *)
ClaimableOnce(c) == session.run = 0

Claimable(c) == session.live => session.client = c

(* A page asks for a turn once, but its owner may open it again at any      *)
(* time; a claim that is refused leaves nothing behind.                     *)
ClaimRead(c) ==
    /\ pages[c].pc = "off"
    /\ session.status = "running" /\ session.trigger # None
    /\ Claimable(c)
    /\ PageTo(c, Start([Idle EXCEPT !.next = Len(transcript)]))
    /\ UNCHANGED <<session, transcript, calls, requests, coming, counts, upsets>>

ClaimWrite(c) ==
    /\ pages[c].pc # "off" /\ pages[c].run = 0
    /\ runs < MaxRuns
    /\ runs' = runs + 1
    /\ session' = [session EXCEPT !.run = runs + 1, !.client = c, !.live = TRUE]
    /\ PageTo(c, [pages[c] EXCEPT !.run = runs + 1])
    /\ UNCHANGED <<transcript, calls, requests, coming, turns, used, upsets>>

-----------------------------------------------------------------------------
(* The turn in the client, and the requests it makes.                       *)

Ready(c, pcs) == pages[c].pc \in pcs /\ pages[c].run # 0 /\ Outstanding(c) = {}
Touched == [session EXCEPT !.live = TRUE]
Request(c, kind) ==
    [kind |-> kind, run |-> pages[c].run, at |-> pages[c].next, role |-> None, call |-> pages[c].call,
     ok |-> FALSE, clears |-> FALSE, status |-> None, step |-> "write", heard |-> TRUE]

RoleOf(p) == IF p.pc = "first" THEN p.role ELSE IF p.pc = "say" THEN "assistant" ELSE "toolResult"

(* recordDesktopMessage up to its UPDATE: the length is read without a lock. *)
PostMessage(c) ==
    /\ Ready(c, {"first", "say", "tell"})
    /\ LET p == pages[c]
       IN  IF Holds(p.run) /\ p.next = Len(transcript)
           THEN /\ requests' = requests \cup
                       {[Request(c, "message") EXCEPT
                             !.role = RoleOf(p), !.ok = p.ok,
                             !.clears = /\ RoleOf(p) \in {"answer", "toolResult"}
                                        /\ session.waiting = p.call]}
                /\ UNCHANGED pages
           ELSE PageTo(c, AfterMessage(p, FALSE)) /\ UNCHANGED requests
    /\ UNCHANGED <<session, transcript, calls, coming, counts, upsets>>

AppendMessage(r) ==
    /\ r \in requests /\ r.kind = "message"
    /\ IF Current(r)
       THEN /\ transcript' = Append(transcript, [role |-> r.role, call |-> r.call, ok |-> r.ok, at |-> r.at])
            /\ session' = [Touched EXCEPT !.waiting = IF r.clears THEN 0 ELSE @]
       ELSE UNCHANGED <<session, transcript>>
    /\ requests' = requests \ {r}
    /\ Answered(r, [c \in Clients |-> {AfterMessage(pages[c], TRUE)}])
    /\ UNCHANGED <<calls, coming, counts, upsets>>

(* The relay asks the model, which answers or calls a tool.                 *)
Think(c) ==
    /\ Ready(c, {"think"})
    /\ LET p == [pages[c] EXCEPT !.pc = "say", !.call = 0, !.replay = FALSE]
       IN  IF ~Holds(p.run)
           THEN PageTo(c, [p EXCEPT !.failed = TRUE, !.pc = "end"]) /\ UNCHANGED <<calls, used>>
           ELSE \/ PageTo(c, p) /\ UNCHANGED <<calls, used>>
                \/ /\ used < MaxCalls
                   /\ used' = used + 1
                   /\ PageTo(c, [p EXCEPT !.call = used + 1])
                   /\ \E kind \in Ending \cup {"work"} : calls' = [calls EXCEPT ![used + 1].kind = kind, ![used + 1].turn = turns]
    /\ UNCHANGED <<session, transcript, requests, coming, turns, runs, upsets>>

(* claimDesktopToolCall: a stored result is returned, a running call is     *)
(* asked for again by the page, an expired one is executed again.           *)
(* Mutant of Executing: a call that runs for the first time is not seen.   *)
ExecutingNever(k) == calls[k].state = "running" /\ calls[k].ran > 1

Executing(k) == calls[k].state = "running" /\ calls[k].live

RequestTool(c) ==
    /\ Ready(c, {"call"})
    /\ LET p == pages[c]
           k == p.call
       IN  IF ~Holds(p.run) \/ calls[k].state \in {"complete", "failed"}
           THEN /\ \E q \in AfterTool(p, Holds(p.run) /\ calls[k].state = "complete") : PageTo(c, q)
                /\ UNCHANGED <<calls, requests>>
           ELSE /\ ~Executing(k)
                /\ calls' = [calls EXCEPT ![k].state = "running", ![k].live = TRUE]
                /\ requests' = requests \cup {[Request(c, "tool") EXCEPT !.step = "execute"]}
                /\ UNCHANGED pages
    /\ UNCHANGED <<session, transcript, coming, counts, upsets>>

(* The tool works, and persistControl writes what it waits for, or throws   *)
(* when the run is no longer the session's; or the tool itself throws.      *)
Execute(r) ==
    /\ r \in requests /\ r.step = "execute"
    /\ calls' = [calls EXCEPT ![r.call].ran = @ + 1]
    /\ \E works \in BOOLEAN :
         LET ok == works /\ Current(r)
         IN  /\ session' = IF ok THEN [Touched EXCEPT !.waiting = IF calls[r.call].kind \in Ending
                                                                    THEN r.call ELSE 0]
                           ELSE session
             /\ requests' = (requests \ {r}) \cup {[r EXCEPT !.step = "store", !.ok = ok]}
    /\ UNCHANGED <<transcript, pages, coming, counts, upsets>>

StoreResult(r) ==
    /\ r \in requests /\ r.step = "store"
    /\ calls' = [calls EXCEPT ![r.call].state = IF r.ok THEN "complete" ELSE "failed", ![r.call].live = FALSE]
    /\ requests' = requests \ {r}
    /\ Answered(r, [c \in Clients |-> AfterTool(pages[c], r.ok)])
    /\ UNCHANGED <<session, transcript, coming, counts, upsets>>

(* completeDesktopTurn reads what the session waits for, then writes.       *)
StatusAfter(p) ==
    IF p.failed THEN "failed"
    ELSE IF session.waiting = 0 THEN "idle"       \* or done, when the model called finish
    ELSE IF calls[session.waiting].kind = "ask" THEN "waiting_user" ELSE "waiting_job"

PostComplete(c) ==
    /\ Ready(c, {"end"})
    /\ IF Holds(pages[c].run)
       THEN /\ requests' = requests \cup {[Request(c, "complete") EXCEPT !.status = StatusAfter(pages[c])]}
            /\ UNCHANGED pages
       ELSE PageTo(c, Idle) /\ UNCHANGED requests
    /\ UNCHANGED <<session, transcript, calls, coming, counts, upsets>>

CompleteTurn(r) ==
    /\ r \in requests /\ r.kind = "complete"
    /\ session' = IF Current(r) THEN [Released(session) EXCEPT !.status = r.status] ELSE session
    /\ requests' = requests \ {r}
    /\ Answered(r, [c \in Clients |-> {Idle}])
    /\ UNCHANGED <<transcript, calls, coming, counts, upsets>>

-----------------------------------------------------------------------------
(* Time and failures.                                                       *)

Beating == \E c \in Clients : pages[c].pc # "off" /\ pages[c].run = session.run

(* The lease of 60 s runs out when nobody renews it; the renewal of a tool  *)
(* call's 180 s lease is part of its execution.                             *)
LeaseExpires ==
    /\ session.live /\ ~Beating
    /\ session' = [session EXCEPT !.live = FALSE]
    /\ UNCHANGED <<transcript, calls, pages, requests, coming, counts, upsets>>

CallLeaseExpires(k) ==
    /\ Executing(k) /\ \A r \in requests : ~(r.kind = "tool" /\ r.call = k)
    /\ calls' = [calls EXCEPT ![k].live = FALSE]
    /\ UNCHANGED <<session, transcript, pages, requests, coming, counts, upsets>>

(* A client sleeps for longer than its lease and goes on.                   *)
Sleep ==
    /\ Upset /\ session.live /\ Beating
    /\ session' = [session EXCEPT !.live = FALSE]
    /\ UNCHANGED <<transcript, calls, pages, requests, coming, counts>>

(* The server is stopped for longer than the lease of the call it executes. *)
Stall(k) ==
    /\ Upset /\ Executing(k) /\ \E r \in requests : r.kind = "tool" /\ r.call = k
    /\ calls' = [calls EXCEPT ![k].live = FALSE, ![k].cut = @ + 1]
    /\ UNCHANGED <<session, transcript, pages, requests, coming, counts>>

Unheard(c) == (requests \ Outstanding(c)) \cup {[r EXCEPT !.heard = FALSE] : r \in Outstanding(c)}

Reload(c) ==
    /\ Upset /\ pages[c].pc # "off"
    /\ PageTo(c, Idle)
    /\ requests' = Unheard(c)
    /\ UNCHANGED <<session, transcript, calls, coming, counts>>

(* A request or its answer is lost; the client sees an error.               *)
NetworkFails(c) ==
    /\ Upset /\ pages[c].pc # "off"
    /\ \E p \in AfterError(pages[c]) : PageTo(c, IF pages[c].run = 0 THEN Idle ELSE p)
    /\ requests' = Unheard(c)
    /\ UNCHANGED <<session, transcript, calls, coming, counts>>

(* The server dies with a request, or the statement of the request fails.   *)
ServerFails(r) ==
    /\ Upset /\ r \in requests
    /\ calls' = IF r.kind = "tool" THEN [calls EXCEPT ![r.call].cut = @ + 1] ELSE calls
    /\ requests' = requests \ {r}
    /\ Answered(r, [c \in Clients |-> AfterError(pages[c])])
    /\ UNCHANGED <<session, transcript, coming, counts>>

(* Between the two statements of a caller: the session stays running.       *)
SchedulingFails ==
    /\ Upset /\ coming # None
    /\ coming' = None
    /\ UNCHANGED <<session, transcript, calls, pages, requests, counts>>

-----------------------------------------------------------------------------

MemberStep == SendMessage \/ AnswerQuestion \/ Wake \/ CancelSession

PageStep(c) ==
    \/ ClaimRead(c) \/ ClaimWrite(c)
    \/ PostMessage(c) \/ Think(c) \/ RequestTool(c) \/ PostComplete(c)

ServerStep ==
    \/ ScheduleSessionTurn
    \/ \E r \in requests : AppendMessage(r) \/ Execute(r) \/ StoreResult(r) \/ CompleteTurn(r)

Environment ==
    \/ Sleep \/ SchedulingFails
    \/ \E k \in Calls : Stall(k)
    \/ \E c \in Clients : Reload(c) \/ NetworkFails(c)
    \/ \E r \in requests : ServerFails(r)

Expiry == LeaseExpires \/ \E k \in Calls : CallLeaseExpires(k)

Next ==
    \/ MemberStep \/ ServerStep \/ Expiry \/ Environment
    \/ \E c \in Clients : PageStep(c)

Spec == Init /\ [][Next]_vars

(* The agent loops of the pages and the requests go on, leases run out, and *)
(* an owner whose turn is unfinished opens its page again.                  *)
Fairness ==
    /\ WF_vars(ServerStep) /\ WF_vars(Expiry)
    /\ \A c \in Clients : WF_vars(PageStep(c))
FairSpec == Spec /\ Fairness

-----------------------------------------------------------------------------
(* The types of the state. *)
Roles == {"user", "answer", "assistant", "toolResult", None}
TypeOK ==
    /\ session \in [status : {"idle", "running", "waiting_user", "waiting_job", "failed"},
                    trigger : {None, "user", "answer", "resume"}, start : Nat, run : 0..MaxRuns,
                    client : Clients \cup {None}, live : BOOLEAN, waiting : 0..MaxCalls,
                    cancelled : BOOLEAN]
    /\ transcript \in Seq([role : Roles, call : 0..MaxCalls, ok : BOOLEAN, at : Nat])
    /\ calls \in [Calls -> [kind : Ending \cup {"work", None}, live : BOOLEAN, ran : Nat, cut : Nat, turn : Nat,
                            state : {None, "running", "complete", "failed"}]]
    /\ pages \in [Clients ->
           [pc : {"off", "first", "say", "tell", "think", "call", "end"}, run : 0..MaxRuns, next : Nat,
            role : Roles, call : 0..MaxCalls, ok : BOOLEAN, replay : BOOLEAN, strict : BOOLEAN,
            stop : BOOLEAN, failed : BOOLEAN]]
    /\ coming \in {None, "user", "answer", "resume"}
    /\ \A r \in requests : r.run \in 1..MaxRuns /\ r.kind \in {"message", "tool", "complete"}

(* The transcript holds every message at the place its client gave it, and *)
(* at most one result a tool gave to a call: requests of an earlier run, of*)
(* another client or of a reloaded page do not write into the turn that    *)
(* followed.                                                               *)
TranscriptInOrder ==
    \A i \in 1..Len(transcript) :
        LET m == transcript[i]
        IN  /\ m.at = i - 1
            /\ m.role = "toolResult" =>
                 \A j \in 1..Len(transcript) :
                     transcript[j].role = "toolResult" /\ transcript[j].call = m.call => j = i

(* A tool call has its effect once, however often it is asked for by        *)
(* reloaded pages and other clients, unless the server died or was stopped  *)
(* while it was executed.                                                   *)
ToolRunsOnce == \A k \in Calls : calls[k].ran <= 1 + calls[k].cut

(* A turn that is scheduled ends, or is cancelled, whatever happens to the  *)
(* clients that claim it: its lease lets go of it, and a client that takes  *)
(* it over finds where to go on.                                            *)
Pending == session.status = "running" /\ session.trigger # None
TurnEnds == Pending ~> ~Pending

=============================================================================
