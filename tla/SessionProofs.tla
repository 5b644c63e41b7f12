----------------------------- MODULE SessionProofs --------------------------
(***************************************************************************)
(* Proofs about the sessions of the workbench: first those whose turns run *)
(* in the desktop client, module DesktopTurn, for any number of clients,   *)
(* messages, turns, claims, tool calls and upsets; then those that run on  *)
(* the server, module WorkbenchSession.                                     *)
(*                                                                         *)
(* Nothing locks the transcript between the check of a message and its     *)
(* UPDATE.  That it stays in order rests on who may be waiting: a run has  *)
(* one page, a page has one request that it still hears (Heard), and it    *)
(* goes on behind a message it gave up on (Passed).  So of the messages of *)
(* the current run one at most is between its check and its UPDATE, and it *)
(* fits the end of the transcript (InFlight).  A result is written once    *)
(* because a page that is about a call either knows it has no result, or   *)
(* replays it at a place the other result would have taken (PagesUntold).  *)
(*                                                                         *)
(* A tool has its effect once because what it has done and what an open    *)
(* request will still do is at most one more than the times it was cut     *)
(* off, and none is left while its lease is out (Effects).                 *)
(***************************************************************************)
EXTENDS DesktopTurn, WorkbenchSession, SequenceTheorems, FiniteSetTheorems, TLAPS

(* Types of the rows.                                                      *)
Statuses == {"idle", "running", "waiting_user", "waiting_job", "failed"}
Ends == Statuses \ {"running"}
Triggers == {None, "user", "answer", "resume"}
SessionRow == [status : Statuses, trigger : Triggers, start : Nat, run : 0..MaxRuns,
               client : Clients \cup {None}, live : BOOLEAN, waiting : 0..MaxCalls,
               cancelled : BOOLEAN]
Message == [role : Roles, call : 0..MaxCalls, ok : BOOLEAN, at : Nat]
CallRow == [kind : Ending \cup {"work", None}, live : BOOLEAN, ran : Nat, cut : Nat, turn : Nat,
            state : {None, "running", "complete", "failed"}]
PageRow == [pc : {"off", "first", "say", "tell", "think", "call", "end"}, run : 0..MaxRuns,
            next : Nat, role : Roles, call : 0..MaxCalls, ok : BOOLEAN, replay : BOOLEAN,
            strict : BOOLEAN, stop : BOOLEAN, failed : BOOLEAN]
RequestRow == [kind : {"message", "tool", "complete"}, run : 1..MaxRuns, at : Nat, role : Roles,
               call : 0..MaxCalls, ok : BOOLEAN, clears : BOOLEAN, status : Ends \cup {None},
               step : {"write", "execute", "store"}, heard : BOOLEAN]

RowsGood == /\ session \in SessionRow
            /\ transcript \in Seq(Message)
            /\ calls \in [Calls -> CallRow]
            /\ coming \in Triggers
            /\ turns \in Nat /\ runs \in 0..MaxRuns /\ used \in 0..MaxCalls
PagesTyped == pages \in [Clients -> PageRow]
RequestGood(r) ==
    /\ r \in RequestRow
    /\ r.kind = "tool" <=> r.step \in {"execute", "store"}
    /\ r.kind = "complete" => r.status \in Ends
    /\ r.kind = "message" /\ r.role = "toolResult" => r.call # 0
    /\ r.run <= runs /\ r.call <= used
RequestsGood == IsFiniteSet(requests) /\ \A r \in requests : RequestGood(r)

(* Where a page is, by itself.                                             *)
Wants(p) == p.pc \in {"say", "call", "tell"} /\ p.call # 0
PageGood(p) ==
    /\ p.run <= runs /\ p.call <= used
    /\ p.pc = "off" => p.run = 0
    /\ p.pc = "first" => p.role \in {"user", "answer"}
    /\ p.run = 0 => p.pc \in {"off", "first", "call", "end", "think"}
    /\ p.pc = "call" /\ p.run = 0 => p.strict
    /\ p.pc \in {"say", "think"} => ~p.strict
    /\ p.pc \in {"call", "tell"} => p.call # 0
PagesGood ==
    /\ PagesTyped
    /\ \A c \in Clients : PageGood(pages[c])
    /\ \A c, d \in Clients : pages[c].run # 0 /\ pages[c].run = pages[d].run => c = d

Messages == {r \in requests : r.kind = "message"}
Resulted(k) == \E j \in 1..Len(transcript) : transcript[j].role = "toolResult" /\ transcript[j].call = k

(* What the server works on while a page waits is what the page asked for. *)
Awaits(p, r) ==
    /\ r.kind = "message" => /\ p.pc \in {"first", "say", "tell"} /\ r.at = p.next
                             /\ r.role = RoleOf(p) /\ r.call = p.call
    /\ r.kind = "tool" => p.pc = "call"
    /\ r.kind = "complete" => p.pc = "end"
Heard == /\ \A c \in Clients : \A r \in Outstanding(c) : Awaits(pages[c], r)
         /\ \A q, r \in requests : q.heard /\ r.heard /\ q.run = r.run => q = r

(* A page that gave up on a message goes on behind it. *)
Passed == \A c \in Clients : \A r \in Messages :
            ~r.heard /\ r.run = pages[c].run => pages[c].next > r.at

(* One message at a time, at the end of the transcript. *)
Fits(r) == /\ r.at = Len(transcript)
           /\ r.role \in {"assistant", "toolResult"} => ~Resulted(r.call)
InFlight == /\ \A r \in Messages : Current(r) => Fits(r)
            /\ \A q, r \in Messages : Current(q) /\ Current(r) => q = r

SavedAt(i) ==
    /\ transcript[i].at = i - 1 /\ transcript[i].call <= used
    /\ transcript[i].role = "toolResult" => transcript[i].call # 0
    /\ transcript[i].role = "toolResult" => \A j \in 1..Len(transcript) :
         transcript[j].call = transcript[i].call =>
            /\ transcript[j].role = "toolResult" => j = i
            /\ transcript[j].role = "assistant" => j < i
Saved == \A i \in 1..Len(transcript) : SavedAt(i)

(* The call a page is about has no result yet.  A replayed one may get it  *)
(* from another page, but then the place of the result is taken.           *)
Untold(p) ==
    IF p.strict
    THEN p.next <= Len(transcript) /\ (p.next = Len(transcript) => ~Resulted(p.call))
    ELSE /\ ~Resulted(p.call)
         /\ \A r \in Messages : ~r.heard /\ Current(r) /\ r.role = "toolResult" => r.call # p.call
PagesUntold == \A c \in Clients :
    pages[c].run \in {0, session.run} /\ Wants(pages[c]) => Untold(pages[c])

Numbers == session.run <= runs /\ session.waiting <= used

Order == /\ PagesGood /\ Heard /\ Passed /\ InFlight /\ Saved /\ PagesUntold /\ Numbers

(* What a call may still do. *)
Tools(k) == {r \in requests : r.kind = "tool" /\ r.call = k}
Starting(k) == {r \in Tools(k) : r.step = "execute"}
Effect(k) ==
    LET spent == calls[k].ran + Cardinality(Starting(k)) IN
    /\ spent <= 1 + calls[k].cut
    /\ calls[k].state = "running" /\ ~calls[k].live => spent <= calls[k].cut
    /\ calls[k].state = "running" /\ Tools(k) = {} => calls[k].ran <= calls[k].cut
    /\ calls[k].state = None => calls[k].ran = 0 /\ Tools(k) = {}
Effects == \A k \in Calls : Effect(k)

IInv == RowsGood /\ RequestsGood /\ Order /\ Effects

-----------------------------------------------------------------------------
LEMMA Constants == /\ MaxRuns \in Nat /\ MaxCalls \in Nat /\ MaxTurns \in Nat /\ MaxMessages \in Nat
                   /\ None \notin {"running", "complete", "failed"}
  BY DesktopAssumption

LEMMA Lengths == ASSUME RowsGood PROVE /\ Len(transcript) \in Nat
                                       /\ \A i \in 1..Len(transcript) : transcript[i] \in Message
  BY LenProperties, ElementOfSeq DEF RowsGood

LEMMA IdlePage == /\ Idle \in PageRow /\ Idle.pc = "off" /\ Idle.run = 0 /\ Idle.call = 0 /\ Idle.next = 0
                  /\ ~Idle.strict /\ ~Idle.replay /\ ~Wants(Idle)
  BY Constants DEF Idle, PageRow, Roles, Wants

LEMMA Initial == Init => IInv
  <1> SUFFICES ASSUME Init PROVE IInv
    OBVIOUS
  <1>1. RowsGood
    BY Constants, EmptySeq DEF Init, RowsGood, SessionRow, Statuses, Triggers, CallRow
  <1>2. RequestsGood
    BY FS_EmptySet DEF Init, RequestsGood
  <1>3. Len(transcript) = 0
    BY EmptySeq DEF Init
  <1>4. PagesGood
    BY Constants, IdlePage DEF Init, PagesGood, PagesTyped, PageGood
  <1>5. Heard /\ Passed /\ InFlight
    BY DEF Init, Heard, Outstanding, Passed, InFlight, Messages
  <1>6. Saved /\ PagesUntold /\ Numbers
    BY <1>3, IdlePage DEF Init, Saved, PagesUntold, Numbers
  <1>7. Effects
    <2>1. \A k \in Calls : Tools(k) = {} /\ Starting(k) = {}
      BY DEF Init, Tools, Starting
    <2>2. Cardinality({}) = 0
      BY FS_EmptySet
    <2>3. \A k \in Calls : calls[k].ran = 0 /\ calls[k].cut = 0 /\ calls[k].state = None
      BY DEF Init
    <2> QED
      BY <2>1, <2>2, <2>3, Constants DEF Effects, Effect
  <1> QED
    BY <1>1, <1>2, <1>4, <1>5, <1>6, <1>7 DEF IInv, Order
-----------------------------------------------------------------------------
(* Pages. *)
LEMMA MessagePage ==
    ASSUME NEW p \in PageRow, NEW ok \in BOOLEAN, p.pc \in {"first", "say", "tell"},
           p.pc = "say" => ~p.strict
    PROVE  LET q == AfterMessage(p, ok) IN
           /\ q \in PageRow /\ q.run = p.run /\ q.next = p.next + 1 /\ q.call = p.call
           /\ ~q.strict /\ q.pc \in {"call", "think", "end"}
           /\ q.pc = "call" => p.pc = "say" /\ p.call # 0
  <1> DEFINE q == AfterMessage(p, ok)
  <1>1. q.run = p.run /\ q.next = p.next + 1 /\ q.call = p.call /\ q.strict = FALSE
        /\ q.pc = (IF p.strict /\ ~ok THEN "end"
                   ELSE IF p.pc = "say" THEN IF p.call = 0 THEN "end" ELSE "call"
                   ELSE IF p.stop THEN "end" ELSE "think")
    BY DEF AfterMessage, PageRow
  <1>2. q \in PageRow
    <2>1. PICK pc \in {"call", "think", "end"}, failed \in BOOLEAN :
            q = [p EXCEPT !.next = p.next + 1, !.failed = failed, !.strict = FALSE,
                          !.stop = FALSE, !.role = None, !.ok = FALSE, !.pc = pc]
      <3>1. (p.failed \/ ~ok) \in BOOLEAN
        BY DEF PageRow
      <3> QED
        BY <3>1 DEF AfterMessage
    <2>2. p.next + 1 \in Nat
      BY DEF PageRow
    <2> HIDE DEF q
    <2> QED
      BY <2>1, <2>2 DEF PageRow, Roles
  <1> QED
    BY <1>1, <1>2

LEMMA ToolPages ==
    ASSUME NEW p \in PageRow, NEW ok \in BOOLEAN, p.pc = "call", NEW q \in AfterTool(p, ok)
    PROVE  /\ q \in PageRow /\ q.run = p.run /\ q.next = p.next /\ q.call = p.call
           /\ q.strict = p.strict /\ q.pc \in {"tell", "end"}
  <1>1. PICK pc \in {"tell", "end"}, stop \in BOOLEAN :
          q = [p EXCEPT !.pc = pc, !.ok = ok, !.stop = stop]
    <2>1. [p EXCEPT !.pc = "tell", !.ok = ok] = [p EXCEPT !.pc = "tell", !.ok = ok, !.stop = p.stop]
      BY DEF PageRow
    <2>2. p.stop \in BOOLEAN
      BY DEF PageRow
    <2> QED
      BY <2>1, <2>2 DEF AfterTool
  <1> QED
    BY <1>1 DEF PageRow

LEMMA ErrorPages ==
    ASSUME NEW p \in PageRow, PageGood(p), NEW q \in AfterError(p), p.pc # "off"
    PROVE  /\ q \in PageRow
           /\ \/ q = Idle
              \/ /\ q.run = p.run /\ q.next >= p.next /\ q.call = p.call
                 /\ p.pc \in {"first", "say", "tell"} => q.next > p.next
                 /\ q.pc \in {"call", "tell", "think", "end"}
                 /\ q.pc = "call" => p.pc = "say" /\ p.call # 0 /\ ~q.strict
                 /\ q.pc = "tell" => p.pc = "call" /\ q.strict = p.strict
                 /\ q.pc = "think" => ~q.strict
  <1>1. p.next \in Nat
    BY DEF PageRow
  <1>2. CASE p.pc \in {"first", "say", "tell"}
    <2>1. q = AfterMessage(p, FALSE)
      BY <1>2 DEF AfterError
    <2>2. /\ q \in PageRow /\ q.run = p.run /\ q.next = p.next + 1 /\ q.call = p.call
          /\ ~q.strict /\ q.pc \in {"call", "think", "end"}
          /\ q.pc = "call" => p.pc = "say" /\ p.call # 0
      BY <1>2, <2>1, MessagePage DEF PageGood
    <2>3. q.next >= p.next /\ q.next > p.next
      BY <1>1, <2>2
    <2> QED
      BY <1>2, <2>2, <2>3
  <1>3. CASE p.pc = "call"
    <2>1. q \in AfterTool(p, FALSE)
      BY <1>3 DEF AfterError
    <2>2. /\ q \in PageRow /\ q.run = p.run /\ q.next = p.next /\ q.call = p.call
          /\ q.strict = p.strict /\ q.pc \in {"tell", "end"}
      BY <1>3, <2>1, ToolPages
    <2>3. q.next >= p.next
      BY <1>1, <2>2
    <2> QED
      BY <1>3, <2>2, <2>3
  <1>4. CASE p.pc = "think"
    <2>1. q = [p EXCEPT !.failed = TRUE, !.pc = "end"]
      BY <1>4 DEF AfterError
    <2>2. q \in PageRow /\ q.run = p.run /\ q.next = p.next /\ q.call = p.call /\ q.pc = "end"
      BY <2>1 DEF PageRow
    <2>3. q.next >= p.next
      BY <1>1, <2>2
    <2> QED
      BY <1>4, <2>2, <2>3
  <1>5. CASE p.pc = "end"
    BY <1>5, IdlePage DEF AfterError
  <1> QED
    BY <1>2, <1>3, <1>4, <1>5 DEF PageRow

(* Where a client takes the turn up. *)
LEMMA StartPage ==
    ASSUME RowsGood, Saved, Numbers, NEW p, p = [Idle EXCEPT !.next = Len(transcript)]
    PROVE  LET q == Start(p) IN
           /\ q \in PageRow /\ q.run = 0 /\ q.next = Len(transcript) /\ q.call <= used
           /\ q.pc \in {"first", "call", "end", "think"}
           /\ q.pc = "first" => q.role \in {"user", "answer"}
           /\ q.pc = "call" => q.strict /\ q.call # 0 /\ ~Resulted(q.call)
           /\ q.pc = "think" => ~q.strict
  <1> USE Constants
  <1> DEFINE q == Start(p)
  <1>1. Len(transcript) \in Nat /\ used \in 0..MaxCalls /\ session.waiting \in 0..MaxCalls
    BY Lengths DEF RowsGood, SessionRow
  <1>2. p \in PageRow /\ p.run = 0 /\ p.next = Len(transcript) /\ p.call = 0 /\ p.pc = "off" /\ p.strict = FALSE
    BY <1>1, IdlePage DEF PageRow
  <1>3. CASE q = [p EXCEPT !.pc = "first", !.role = "user"]
    <2> DEFINE s == [p EXCEPT !.pc = "first", !.role = "user"]
    <2>1. s \in PageRow /\ s.run = p.run /\ s.next = p.next /\ s.call = p.call /\ s.pc = "first"
         /\ s.role = "user"
      BY <1>2 DEF PageRow, Roles
    <2>2. q \in PageRow /\ q.run = 0 /\ q.next = Len(transcript) /\ q.call = 0 /\ q.pc = "first"
         /\ q.role = "user"
      BY <1>2, <1>3, <2>1
    <2> HIDE DEF q
    <2>3. 0 <= used
      BY <1>1
    <2> QED
      BY <2>2, <2>3 DEF q
  <1>4. CASE \E role \in {"answer", "user"}, call \in {session.waiting, 0} :
               q = [p EXCEPT !.pc = "first", !.strict = TRUE, !.role = role, !.call = call, !.ok = TRUE]
    <2>1. PICK role \in {"answer", "user"}, call \in {session.waiting, 0} :
               q = [p EXCEPT !.pc = "first", !.strict = TRUE, !.role = role, !.call = call, !.ok = TRUE]
      BY <1>4
    <2>2. call \in 0..MaxCalls /\ call <= used
      BY <1>1 DEF Numbers
    <2>3. q \in PageRow /\ q.run = p.run /\ q.next = p.next /\ q.call = call /\ q.pc = "first"
         /\ q.role = role
      BY <1>2, <2>1, <2>2 DEF PageRow, Roles
    <2> HIDE DEF q
    <2> QED
      BY <1>2, <2>2, <2>3 DEF q
  <1>5. CASE Missing # {} /\ q = [p EXCEPT !.pc = "call", !.call = CHOOSE k \in Missing : TRUE,
                                           !.replay = TRUE, !.strict = TRUE]
    <2>1. PICK k \in Missing : q = [p EXCEPT !.pc = "call", !.call = k, !.replay = TRUE, !.strict = TRUE]
      BY <1>5
    <2>2. PICK i \in Spoken :
            /\ k \in Calls /\ transcript[i].call = k
            /\ \A j \in i..Len(transcript) : ~(/\ transcript[j].role \in {"answer", "toolResult"}
                                               /\ transcript[j].call = k)
      BY <2>1 DEF Missing
    <2>3. i \in 1..Len(transcript) /\ transcript[i].role = "assistant" /\ transcript[i].call <= used
      BY <2>2 DEF Spoken, Saved, SavedAt
    <2>4. ASSUME NEW j \in 1..Len(transcript), transcript[j].role = "toolResult", transcript[j].call = k
          PROVE  FALSE
      <3>1. i < j
        BY <2>2, <2>3, <2>4 DEF Saved, SavedAt
      <3>2. j \in i..Len(transcript)
        BY <1>1, <2>3, <3>1
      <3> QED
        BY <2>2, <2>4, <3>2
    <2>5. k \in 1..MaxCalls /\ ~Resulted(k)
      BY <2>2, <2>4 DEF Calls, Resulted
    <2>6. k \in 0..MaxCalls /\ k # 0 /\ k <= used
      BY <1>1, <2>2, <2>3, <2>5
    <2>7. q \in PageRow /\ q.run = p.run /\ q.next = p.next /\ q.call = k /\ q.pc = "call" /\ q.strict
      BY <1>2, <2>1, <2>6 DEF PageRow
    <2> HIDE DEF q
    <2> QED
      BY <1>2, <2>5, <2>6, <2>7 DEF q
  <1>6. CASE \E pc \in {"end", "think"} : q = [p EXCEPT !.pc = pc]
    <2>1. PICK pc \in {"end", "think"} : q = [p EXCEPT !.pc = pc]
      BY <1>6
    <2>2. q \in PageRow /\ q.run = 0 /\ q.next = p.next /\ q.call = 0 /\ q.pc = pc /\ q.strict = FALSE
      BY <1>2, <2>1 DEF PageRow
    <2>3. 0 <= used
      BY <1>1
    <2> HIDE DEF q
    <2> QED
      BY <1>2, <2>1, <2>2, <2>3 DEF q
  <1>7. \/ q = [p EXCEPT !.pc = "first", !.role = "user"]
        \/ \E role \in {"answer", "user"}, call \in {session.waiting, 0} :
               q = [p EXCEPT !.pc = "first", !.strict = TRUE, !.role = role, !.call = call, !.ok = TRUE]
        \/ Missing # {} /\ q = [p EXCEPT !.pc = "call", !.call = CHOOSE k \in Missing : TRUE,
                                         !.replay = TRUE, !.strict = TRUE]
        \/ \E pc \in {"end", "think"} : q = [p EXCEPT !.pc = pc]
    BY DEF Start
  <1> QED
    BY <1>3, <1>4, <1>5, <1>6, <1>7
-----------------------------------------------------------------------------
(* Rows. *)
LEMMA CallRows ==
    ASSUME RowsGood, NEW k, NEW st \in {"running", "complete", "failed"}, NEW live \in BOOLEAN
    PROVE  LET f == [calls EXCEPT ![k].state = st, ![k].live = live] IN
           /\ f \in [Calls -> CallRow]
           /\ \A j \in Calls : /\ f[j].ran = calls[j].ran /\ f[j].cut = calls[j].cut
                               /\ j # k => f[j] = calls[j]
           /\ k \in Calls => f[k].state = st /\ f[k].live = live
  <1>1. calls \in [Calls -> CallRow]
    BY DEF RowsGood
  <1> DEFINE g == [calls EXCEPT ![k].state = st]
             f == [g EXCEPT ![k].live = live]
  <1>2. g \in [Calls -> CallRow]
    BY <1>1 DEF CallRow
  <1>3. \A j \in Calls : /\ g[j].ran = calls[j].ran /\ g[j].cut = calls[j].cut
                         /\ j # k => g[j] = calls[j]
                         /\ j = k => g[j].state = st
    BY <1>1 DEF CallRow
  <1> HIDE DEF g
  <1>4. f \in [Calls -> CallRow]
    BY <1>2 DEF CallRow
  <1>5. \A j \in Calls : /\ f[j].ran = g[j].ran /\ f[j].cut = g[j].cut
                         /\ j # k => f[j] = g[j]
                         /\ j = k => f[j].state = g[j].state /\ f[j].live = live
    BY <1>2 DEF CallRow
  <1> QED
    BY <1>3, <1>4, <1>5 DEF g

(* A call whose execution lapses, is cut off, or has had its effect.       *)
LEMMA CallLapses ==
    ASSUME RowsGood, NEW k
    PROVE  LET f == [calls EXCEPT ![k].live = FALSE] IN
           /\ f \in [Calls -> CallRow]
           /\ \A j \in Calls : /\ f[j].ran = calls[j].ran /\ f[j].cut = calls[j].cut
                               /\ f[j].state = calls[j].state
                               /\ j # k => f[j].live = calls[j].live
  <1>1. calls \in [Calls -> CallRow]
    BY DEF RowsGood
  <1> QED
    BY <1>1 DEF CallRow

LEMMA CallCut ==
    ASSUME RowsGood, NEW k
    PROVE  LET f == [calls EXCEPT ![k].cut = @ + 1] IN
           /\ f \in [Calls -> CallRow]
           /\ \A j \in Calls : /\ f[j].ran = calls[j].ran /\ f[j].state = calls[j].state
                               /\ f[j].live = calls[j].live
                               /\ f[j].cut = IF j = k THEN calls[j].cut + 1 ELSE calls[j].cut
  <1>1. calls \in [Calls -> CallRow]
    BY DEF RowsGood
  <1>2. k \in Calls => [calls[k] EXCEPT !.cut = @ + 1] \in CallRow
    BY <1>1 DEF CallRow
  <1> QED
    BY <1>1, <1>2 DEF CallRow

LEMMA CallRuns ==
    ASSUME RowsGood, NEW k
    PROVE  LET f == [calls EXCEPT ![k].ran = @ + 1] IN
           /\ f \in [Calls -> CallRow]
           /\ \A j \in Calls : /\ f[j].cut = calls[j].cut /\ f[j].state = calls[j].state
                               /\ f[j].live = calls[j].live
                               /\ f[j].ran = IF j = k THEN calls[j].ran + 1 ELSE calls[j].ran
  <1>1. calls \in [Calls -> CallRow]
    BY DEF RowsGood
  <1>2. k \in Calls => [calls[k] EXCEPT !.ran = @ + 1] \in CallRow
    BY <1>1 DEF CallRow
  <1> QED
    BY <1>1, <1>2 DEF CallRow

LEMMA CallStalls ==
    ASSUME RowsGood, NEW k
    PROVE  LET f == [calls EXCEPT ![k].live = FALSE, ![k].cut = @ + 1] IN
           /\ f \in [Calls -> CallRow]
           /\ \A j \in Calls : /\ f[j].ran = calls[j].ran /\ f[j].state = calls[j].state
                               /\ j # k => f[j].live = calls[j].live
                               /\ f[j].cut = IF j = k THEN calls[j].cut + 1 ELSE calls[j].cut
  <1>1. calls \in [Calls -> CallRow]
    BY DEF RowsGood
  <1> DEFINE f == [calls EXCEPT ![k].live = FALSE, ![k].cut = @ + 1]
             g == [calls[k] EXCEPT !.live = FALSE, !.cut = @ + 1]
  <1>2. DOMAIN f = Calls /\ \A j \in Calls : f[j] = IF j = k THEN g ELSE calls[j]
    BY <1>1
  <1>3. k \in Calls => /\ g \in CallRow /\ g.ran = calls[k].ran /\ g.state = calls[k].state
                       /\ g.cut = calls[k].cut + 1
    <2> SUFFICES ASSUME k \in Calls
                 PROVE  /\ g \in CallRow /\ g.ran = calls[k].ran /\ g.state = calls[k].state
                        /\ g.cut = calls[k].cut + 1
      OBVIOUS
    <2> DEFINE row == calls[k]
    <2>1. row \in CallRow /\ row.cut + 1 \in Nat
      BY <1>1 DEF CallRow
    <2>2. g = [row EXCEPT !.live = FALSE, !.cut = row.cut + 1]
      BY <2>1 DEF CallRow
    <2> HIDE DEF g, row
    <2>3. /\ g \in CallRow /\ g.ran = row.ran /\ g.state = row.state /\ g.cut = row.cut + 1
      BY <2>1, <2>2 DEF CallRow
    <2> QED
      BY <2>3 DEF row
  <1>4. f \in [Calls -> CallRow]
    <2>1. \A j \in Calls : f[j] \in CallRow
      BY <1>1, <1>2, <1>3
    <2>2. f = [j \in Calls |-> f[j]]
      BY <1>2
    <2> QED
      BY <2>1, <2>2
  <1> HIDE DEF g
  <1>5. \A j \in Calls : /\ f[j].ran = calls[j].ran /\ f[j].state = calls[j].state
                         /\ j # k => f[j].live = calls[j].live
                         /\ f[j].cut = IF j = k THEN calls[j].cut + 1 ELSE calls[j].cut
    BY <1>2, <1>3
  <1> QED
    BY <1>4, <1>5

LEMMA ReleasedRow ==
    ASSUME session \in SessionRow
    PROVE  /\ Released(session) \in SessionRow
           /\ Released(session).run = 0 /\ Released(session).waiting = session.waiting
  <1> DEFINE s == [session EXCEPT !.trigger = None, !.start = 0, !.run = 0]
  <1>1. s \in SessionRow /\ s.run = 0 /\ s.waiting = session.waiting
    <2>1. None \in Triggers /\ 0 \in Nat /\ 0 \in 0..MaxRuns
      BY Constants DEF Triggers
    <2> QED
      BY <2>1 DEF SessionRow
  <1>2. Released(session) = [s EXCEPT !.client = None, !.live = FALSE]
    BY DEF Released
  <1> HIDE DEF s
  <1>3. None \in Clients \cup {None}
    OBVIOUS
  <1> QED
    BY <1>1, <1>2, <1>3 DEF SessionRow

(* The requests a page makes. *)
MessageRequest(c, role, ok, clears) ==
    [Request(c, "message") EXCEPT !.role = role, !.ok = ok, !.clears = clears]
ToolRequest(c) == [Request(c, "tool") EXCEPT !.step = "execute"]
CompleteRequest(c, status) == [Request(c, "complete") EXCEPT !.status = status]
Sent(c, r, kind) ==
    /\ RequestGood(r) /\ r.kind = kind /\ r.heard
    /\ r.run = pages[c].run /\ r.at = pages[c].next /\ r.call = pages[c].call

LEMMA NewRequest ==
    ASSUME RowsGood, PagesGood, NEW c \in Clients, pages[c].run # 0
    PROVE  /\ \A role \in Roles, ok \in BOOLEAN, clears \in BOOLEAN :
                (role = "toolResult" => pages[c].call # 0) =>
                   /\ Sent(c, MessageRequest(c, role, ok, clears), "message")
                   /\ MessageRequest(c, role, ok, clears).role = role
           /\ Sent(c, ToolRequest(c), "tool") /\ ToolRequest(c).step = "execute"
           /\ \A status \in Ends : Sent(c, CompleteRequest(c, status), "complete")
  <1>1. /\ pages[c] \in PageRow /\ pages[c].run \in 1..MaxRuns
        /\ pages[c].run <= runs /\ pages[c].call <= used
    BY Constants DEF PagesGood, PagesTyped, PageGood, PageRow
  <1>2. pages[c].next \in Nat /\ pages[c].call \in 0..MaxCalls
    BY <1>1 DEF PageRow
  <1>3. \A kind \in {"message", "tool", "complete"} :
          Request(c, kind) \in RequestRow /\ Request(c, kind).kind = kind
    BY <1>1, <1>2 DEF Request, RequestRow, Roles
  <1>4. \A kind : /\ Request(c, kind).run = pages[c].run /\ Request(c, kind).at = pages[c].next
                  /\ Request(c, kind).call = pages[c].call /\ Request(c, kind).heard
                  /\ Request(c, kind).step = "write"
    BY DEF Request
  <1> DEFINE m == Request(c, "message")
             t == Request(c, "tool")
             e == Request(c, "complete")
  <1>a. /\ m \in RequestRow /\ m.kind = "message" /\ m.step = "write"
        /\ t \in RequestRow /\ t.kind = "tool"
        /\ e \in RequestRow /\ e.kind = "complete" /\ e.step = "write"
    BY <1>3, <1>4
  <1>b. /\ \A s \in {m, t, e} : /\ s.run = pages[c].run /\ s.at = pages[c].next
                               /\ s.call = pages[c].call /\ s.heard
    BY <1>4
  <1> HIDE DEF m, t, e
  <1>5. ASSUME NEW role \in Roles, NEW ok \in BOOLEAN, NEW clears \in BOOLEAN,
               role = "toolResult" => pages[c].call # 0
        PROVE  /\ Sent(c, MessageRequest(c, role, ok, clears), "message")
               /\ MessageRequest(c, role, ok, clears).role = role
    <2> DEFINE r == MessageRequest(c, role, ok, clears)
    <2>1. r = [m EXCEPT !.role = role, !.ok = ok, !.clears = clears]
      BY DEF m, MessageRequest
    <2> HIDE DEF r
    <2>2. /\ r \in RequestRow /\ r.kind = "message" /\ r.step = "write" /\ r.role = role
          /\ r.run = m.run /\ r.at = m.at /\ r.call = m.call /\ r.heard = m.heard
      BY <1>a, <2>1 DEF RequestRow
    <2>3. Sent(c, r, "message")
      BY <1>1, <1>b, <1>5, <2>2 DEF RequestGood, Sent
    <2> QED
      BY <2>2, <2>3 DEF r
  <1>6. Sent(c, ToolRequest(c), "tool") /\ ToolRequest(c).step = "execute"
    <2> DEFINE r == ToolRequest(c)
    <2>1. r = [t EXCEPT !.step = "execute"]
      BY DEF t, ToolRequest
    <2> HIDE DEF r
    <2>2. /\ r \in RequestRow /\ r.kind = "tool" /\ r.step = "execute"
          /\ r.run = t.run /\ r.at = t.at /\ r.call = t.call /\ r.heard = t.heard
      BY <1>a, <2>1 DEF RequestRow
    <2>3. Sent(c, r, "tool")
      BY <1>1, <1>b, <2>2 DEF RequestGood, Sent
    <2> QED
      BY <2>2, <2>3 DEF r
  <1>7. ASSUME NEW status \in Ends PROVE Sent(c, CompleteRequest(c, status), "complete")
    <2> DEFINE r == CompleteRequest(c, status)
    <2>1. r = [e EXCEPT !.status = status]
      BY DEF e, CompleteRequest
    <2> HIDE DEF r
    <2>2. /\ r \in RequestRow /\ r.kind = "complete" /\ r.step = "write"
          /\ r.run = e.run /\ r.at = e.at /\ r.call = e.call /\ r.heard = e.heard
          /\ r.status = status
      BY <1>a, <2>1 DEF RequestRow
    <2>3. Sent(c, r, "complete")
      BY <1>1, <1>b, <2>2 DEF RequestGood, Sent
    <2> QED
      BY <2>3 DEF r
  <1> QED
    BY <1>5, <1>6, <1>7

LEMMA StatusIsEnd == ASSUME NEW p PROVE StatusAfter(p) \in Ends
  BY DEF StatusAfter, Ends, Statuses

(* The steps of the session's row that leave its transcript, its pages and *)
(* its requests alone.                                                     *)
RowStep == MemberStep \/ ScheduleSessionTurn \/ Expiry \/ Sleep \/ SchedulingFails
           \/ \E k \in Calls : Stall(k)

LEMMA RowSteps ==
    ASSUME RowsGood, Numbers, RowStep
    PROVE  /\ RowsGood' /\ Numbers' /\ UNCHANGED <<transcript, pages, requests, runs, used>>
           /\ session'.run \in {session.run, 0}
  <1> USE Constants
  <1>1. session \in SessionRow /\ Len(transcript) \in Nat /\ runs \in Nat /\ used \in Nat
    BY Lengths DEF RowsGood
  <1>2. ASSUME NEW status \in Statuses, NEW trigger \in Triggers, Schedule(status, trigger)
        PROVE  /\ RowsGood' /\ UNCHANGED <<transcript, pages, requests, runs, used>>
               /\ session'.run = session.run /\ session'.waiting = session.waiting
    BY <1>1, <1>2, SMTT(20) DEF Schedule, RowsGood, SessionRow
  <1>3. CASE SendMessage \/ AnswerQuestion \/ Wake
    <2>1. \E status \in Statuses, trigger \in Triggers : Schedule(status, trigger)
      BY <1>3 DEF SendMessage, AnswerQuestion, Wake, Statuses, Triggers
    <2> QED
      BY <1>2, <2>1 DEF Numbers
  <1>4. CASE ScheduleSessionTurn
    <2>1. session' \in SessionRow /\ session'.run = 0 /\ session'.waiting = session.waiting
      <3> DEFINE s == [session EXCEPT !.trigger = coming, !.start = Len(transcript), !.run = 0]
      <3>1. coming \in Triggers /\ 0 \in 0..MaxRuns
        BY DEF RowsGood
      <3>2. s \in SessionRow /\ s.run = 0 /\ s.waiting = session.waiting
        BY <1>1, <3>1 DEF SessionRow
      <3>3. session' = [s EXCEPT !.client = None, !.live = FALSE]
        BY <1>4 DEF ScheduleSessionTurn
      <3> HIDE DEF s
      <3>4. None \in Clients \cup {None}
        OBVIOUS
      <3> QED
        BY <3>2, <3>3, <3>4 DEF SessionRow
    <2> QED
      BY <1>1, <1>4, <2>1 DEF ScheduleSessionTurn, counts, RowsGood, Triggers, Numbers
  <1>5. CASE CancelSession
    <2>1. session' \in SessionRow /\ session'.run = 0 /\ session'.waiting = 0
      <3> DEFINE s == Released(session)
      <3>1. s \in SessionRow /\ s.run = 0
        BY <1>1, ReleasedRow
      <3>2. session' = [s EXCEPT !.status = "failed", !.waiting = 0, !.cancelled = TRUE]
        BY <1>5 DEF CancelSession
      <3> HIDE DEF s
      <3>3. 0 \in 0..MaxCalls /\ "failed" \in Statuses
        BY DEF Statuses
      <3> QED
        BY <3>1, <3>2, <3>3 DEF SessionRow
    <2> QED
      BY <1>1, <1>5, <2>1 DEF CancelSession, counts, RowsGood, Numbers
  <1>6. CASE LeaseExpires \/ Sleep
    BY <1>1, <1>6 DEF LeaseExpires, Sleep, Upset, counts, RowsGood, SessionRow, Numbers
  <1>7. ASSUME NEW k \in Calls, CallLeaseExpires(k) \/ Stall(k)
        PROVE  /\ RowsGood' /\ UNCHANGED <<session, transcript, pages, requests, runs, used>>
    <2>1. calls' \in [Calls -> CallRow]
      <3>1. /\ [calls EXCEPT ![k].live = FALSE] \in [Calls -> CallRow]
            /\ [calls EXCEPT ![k].live = FALSE, ![k].cut = @ + 1] \in [Calls -> CallRow]
        BY CallLapses, CallStalls
      <3> QED
        BY <1>7, <3>1 DEF CallLeaseExpires, Stall
    <2> QED
      BY <1>7, <2>1 DEF CallLeaseExpires, Stall, counts, RowsGood
  <1>8. CASE SchedulingFails
    BY <1>8 DEF SchedulingFails, Upset, counts, RowsGood, Triggers, Numbers
  <1> QED
    BY <1>3, <1>4, <1>5, <1>6, <1>7, <1>8 DEF RowStep, MemberStep, Expiry, Numbers

LEMMA SaveMessage ==
    ASSUME RowsGood, NEW m \in Message, transcript' = Append(transcript, m)
    PROVE  /\ transcript' \in Seq(Message) /\ Len(transcript') = Len(transcript) + 1
           /\ \A i \in 1..Len(transcript) : transcript'[i] = transcript[i]
           /\ transcript'[Len(transcript) + 1] = m
  BY AppendProperties DEF RowsGood

LEMMA OtherRows ==
    ASSUME RowsGood, RequestsGood, PagesGood, Numbers, Next, ~RowStep PROVE RowsGood' /\ Numbers'
  <1> USE Constants
  <1>1. session \in SessionRow /\ runs \in 0..MaxRuns /\ used \in 0..MaxCalls
    BY DEF RowsGood
  <1>2. ASSUME NEW c \in Clients, ClaimWrite(c) PROVE RowsGood' /\ Numbers'
    <2>1. runs + 1 \in 0..MaxRuns
      BY <1>1, <1>2 DEF ClaimWrite
    <2>2. session' \in SessionRow /\ session'.run = runs + 1 /\ session'.waiting = session.waiting
      BY <1>1, <1>2, <2>1 DEF ClaimWrite, SessionRow
    <2> QED
      BY <1>1, <1>2, <2>1, <2>2 DEF ClaimWrite, RowsGood, Numbers
  <1>3. ASSUME NEW c \in Clients, Think(c) PROVE RowsGood' /\ Numbers'
    <2>1. CASE UNCHANGED <<calls, used>>
      BY <1>3, <2>1 DEF Think, RowsGood, Numbers
    <2>2. CASE /\ used < MaxCalls /\ used' = used + 1
               /\ \E kind \in Ending \cup {"work"} :
                    calls' = [calls EXCEPT ![used + 1].kind = kind, ![used + 1].turn = turns]
      <3>1. PICK kind \in Ending \cup {"work"} :
                    calls' = [calls EXCEPT ![used + 1].kind = kind, ![used + 1].turn = turns]
        BY <2>2
      <3>2. calls' \in [Calls -> CallRow]
        <4> DEFINE first == [calls EXCEPT ![used + 1].kind = kind]
        <4>1. calls' = [first EXCEPT ![used + 1].turn = turns]
          BY <3>1
        <4>2. first \in [Calls -> CallRow]
          <5>1. calls \in [Calls -> CallRow]
            BY DEF RowsGood
          <5> QED
            BY <5>1 DEF CallRow
        <4>3. turns \in Nat
          BY DEF RowsGood
        <4> HIDE DEF first
        <4> QED
          BY <4>1, <4>2, <4>3 DEF CallRow
      <3>3. used + 1 \in 0..MaxCalls /\ session.waiting \in Nat
        BY <1>1, <2>2 DEF SessionRow
      <3>4. UNCHANGED <<session, transcript, coming, turns, runs>>
        BY <1>3 DEF Think
      <3>5. session.waiting <= used'
        BY <1>1, <2>2, <3>3 DEF Numbers
      <3> QED
        BY <2>2, <3>2, <3>3, <3>4, <3>5 DEF RowsGood, Numbers
    <2> QED
      BY <1>3, <2>1, <2>2 DEF Think
  <1>4. ASSUME NEW r \in requests, AppendMessage(r) PROVE RowsGood' /\ Numbers'
    <2>1. r \in RequestRow
      BY DEF RequestsGood, RequestGood
    <2>2. [role |-> r.role, call |-> r.call, ok |-> r.ok, at |-> r.at] \in Message
      BY <2>1 DEF RequestRow, Message
    <2>3. transcript' \in Seq(Message)
      BY <1>4, <2>2, SaveMessage DEF AppendMessage, RowsGood
    <2>4. session' \in SessionRow /\ session'.run = session.run /\ session'.waiting \in {0, session.waiting}
      <3> DEFINE s == Touched
      <3>1. s \in SessionRow /\ s.run = session.run /\ s.waiting = session.waiting
        BY <1>1 DEF Touched, SessionRow
      <3>2. \/ session' = session
            \/ session' = [s EXCEPT !.waiting = 0] \/ session' = [s EXCEPT !.waiting = s.waiting]
        BY <1>4 DEF AppendMessage
      <3> HIDE DEF s
      <3> QED
        BY <1>1, <3>1, <3>2 DEF SessionRow
    <2> QED
      BY <1>1, <1>4, <2>3, <2>4 DEF AppendMessage, counts, RowsGood, Numbers
  <1>5. ASSUME NEW r \in requests, Execute(r) PROVE RowsGood' /\ Numbers'
    <2>1. r.call \in 0..MaxCalls /\ r.call <= used
      BY DEF RequestsGood, RequestGood, RequestRow
    <2>2. session' \in SessionRow /\ session'.run = session.run
          /\ session'.waiting \in {0, session.waiting, r.call}
      <3> DEFINE s == Touched
      <3>1. s \in SessionRow /\ s.run = session.run
        BY <1>1 DEF Touched, SessionRow
      <3>2. \/ session' = session
            \/ \E k \in {0, r.call} : session' = [s EXCEPT !.waiting = k]
        BY <1>5 DEF Execute
      <3> HIDE DEF s
      <3> QED
        BY <1>1, <2>1, <3>1, <3>2 DEF SessionRow
    <2>3. calls' \in [Calls -> CallRow]
      BY <1>5, CallRuns DEF Execute
    <2> QED
      BY <1>1, <1>5, <2>1, <2>2, <2>3 DEF Execute, counts, RowsGood, Numbers
  <1>6. ASSUME NEW r \in requests, CompleteTurn(r) PROVE RowsGood' /\ Numbers'
    <2>1. r.status \in Statuses
      BY <1>6 DEF CompleteTurn, RequestsGood, RequestGood, Ends
    <2>2. session' \in SessionRow /\ session'.run \in {session.run, 0} /\ session'.waiting = session.waiting
      <3> DEFINE s == Released(session)
      <3>1. s \in SessionRow /\ s.run = 0 /\ s.waiting = session.waiting
        BY <1>1, ReleasedRow
      <3>2. session' = session \/ session' = [s EXCEPT !.status = r.status]
        BY <1>6 DEF CompleteTurn
      <3> HIDE DEF s
      <3> QED
        BY <1>1, <2>1, <3>1, <3>2 DEF SessionRow
    <2> QED
      BY <1>1, <1>6, <2>2 DEF CompleteTurn, counts, RowsGood, Numbers
  <1>7. ASSUME NEW c \in Clients, RequestTool(c) PROVE RowsGood' /\ Numbers'
    <2>1. calls' \in [Calls -> CallRow]
      <3>1. calls' = calls \/ \E k : calls' = [calls EXCEPT ![k].state = "running", ![k].live = TRUE]
        BY <1>7 DEF RequestTool
      <3> QED
        <4>1. CASE calls' = calls
          BY <4>1 DEF RowsGood
        <4>2. ASSUME NEW k, calls' = [calls EXCEPT ![k].state = "running", ![k].live = TRUE]
              PROVE  calls' \in [Calls -> CallRow]
          <5>1. [calls EXCEPT ![k].state = "running", ![k].live = TRUE] \in [Calls -> CallRow]
            BY CallRows
          <5> QED
            BY <4>2, <5>1
        <4> QED
          BY <3>1, <4>1, <4>2
    <2> QED
      BY <1>7, <2>1 DEF RequestTool, counts, RowsGood, Numbers
  <1>8. ASSUME NEW r \in requests, StoreResult(r) \/ ServerFails(r) PROVE RowsGood' /\ Numbers'
    <2>1. calls' \in [Calls -> CallRow]
      <3>1. CASE StoreResult(r)
        <4>1. PICK st \in {"complete", "failed"} :
                calls' = [calls EXCEPT ![r.call].state = st, ![r.call].live = FALSE]
          BY <3>1 DEF StoreResult
        <4>2. [calls EXCEPT ![r.call].state = st, ![r.call].live = FALSE] \in [Calls -> CallRow]
          BY CallRows, ZenonT(40)
        <4> QED
          BY <4>1, <4>2
      <3>2. CASE ServerFails(r)
        BY <3>2, CallCut DEF ServerFails, RowsGood
      <3> QED
        BY <1>8, <3>1, <3>2
    <2> QED
      BY <1>8, <2>1 DEF StoreResult, ServerFails, Upset, counts, RowsGood, Numbers
  <1>9. ASSUME NEW c \in Clients, ClaimRead(c) \/ PostMessage(c) \/ PostComplete(c) \/ Reload(c) \/ NetworkFails(c)
        PROVE  RowsGood' /\ Numbers'
    BY <1>9 DEF ClaimRead, PostMessage, PostComplete, Reload, NetworkFails, Upset, counts, RowsGood, Numbers
  <1> QED
    BY <1>2, <1>3, <1>4, <1>5, <1>6, <1>7, <1>8, <1>9
    DEF Next, RowStep, MemberStep, ServerStep, PageStep, Environment, Expiry
-----------------------------------------------------------------------------
(* Requests. *)
LEMMA Counted ==
    ASSUME RowsGood, Next
    PROVE  /\ runs \in Nat /\ runs' \in Nat /\ used \in Nat /\ used' \in Nat
           /\ runs <= runs' /\ used <= used'
  <1>1. runs \in Nat /\ used \in Nat
    BY Constants DEF RowsGood
  <1>2. runs' \in {runs, runs + 1} /\ used' \in {used, used + 1}
    BY DEF Next, MemberStep, ServerStep, PageStep, Environment, Expiry, counts, Schedule,
           SendMessage, AnswerQuestion, Wake, CancelSession, ScheduleSessionTurn,
           AppendMessage, Execute, StoreResult, CompleteTurn, Sleep, SchedulingFails, Stall,
           Reload, NetworkFails, ServerFails, LeaseExpires, CallLeaseExpires,
           ClaimRead, ClaimWrite, PostMessage, Think, RequestTool, PostComplete
  <1> QED
    BY <1>1, <1>2

LEMMA RequestNumbers ==
    ASSUME RequestsGood, RowsGood
    PROVE  \A r \in requests : /\ r \in RequestRow /\ r.run \in 1..MaxRuns /\ r.run # 0
                              /\ r.run \in Nat /\ r.call \in Nat /\ r.at \in Nat
                              /\ r.kind \in {"message", "tool", "complete"}
                              /\ r.run <= runs /\ r.call <= used
  BY Constants DEF RequestsGood, RequestGood, RequestRow

LEMMA RequestStays ==
    ASSUME RowsGood, RequestsGood, NEW r, RequestGood(r), runs' \in Nat, used' \in Nat,
           runs <= runs', used <= used'
    PROVE  RequestGood(r)'
  <1>1. r.run \in Nat /\ r.call \in Nat /\ runs \in Nat /\ used \in Nat
    BY Constants DEF RowsGood, RequestGood, RequestRow
  <1>2. r.run <= runs' /\ r.call <= used'
    BY <1>1 DEF RequestGood
  <1> QED
    BY <1>2 DEF RequestGood

(* What a request that is executed, or that nobody waits for any more, keeps. *)
LEMMA DesktopRequestStep ==
    ASSUME NEW r \in RequestRow, NEW ok \in BOOLEAN
    PROVE  /\ LET q == [r EXCEPT !.step = "store", !.ok = ok] IN
              /\ q \in RequestRow /\ q.step = "store"
              /\ q.kind = r.kind /\ q.run = r.run /\ q.call = r.call /\ q.at = r.at
              /\ q.role = r.role /\ q.status = r.status /\ q.heard = r.heard
           /\ LET q == [r EXCEPT !.heard = FALSE] IN
              /\ q \in RequestRow /\ ~q.heard /\ q.step = r.step
              /\ q.kind = r.kind /\ q.run = r.run /\ q.call = r.call /\ q.at = r.at
              /\ q.role = r.role /\ q.status = r.status
  BY DEF RequestRow

(* A page that gives up leaves its requests to themselves.                 *)
Deaf(c, r) == IF r \in Outstanding(c) THEN [r EXCEPT !.heard = FALSE] ELSE r

LEMMA UnheardImage ==
    ASSUME RequestsGood, NEW c
    PROVE  /\ Unheard(c) = {Deaf(c, r) : r \in requests}
           /\ IsFiniteSet(Unheard(c))
           /\ \A r \in requests :
                LET q == Deaf(c, r) IN
                /\ q \in RequestRow /\ q.step = r.step
                /\ q.kind = r.kind /\ q.run = r.run /\ q.call = r.call /\ q.at = r.at
                /\ q.role = r.role /\ q.status = r.status
                /\ q.heard => q = r /\ r.heard /\ r \notin Outstanding(c)
                /\ ~q.heard => (~r.heard \/ r \in Outstanding(c))
  <1>1. Outstanding(c) \subseteq requests
    BY DEF Outstanding
  <1>2. Unheard(c) = {Deaf(c, r) : r \in requests}
    BY <1>1 DEF Unheard, Deaf
  <1>3. IsFiniteSet(Unheard(c))
    <2> DEFINE f == [r \in requests |-> Deaf(c, r)]
    <2>1. f \in Surjection(requests, Unheard(c))
      BY <1>2 DEF Surjection
    <2> HIDE DEF f
    <2> QED
      BY <2>1, FS_Surjection DEF RequestsGood
  <1>4. ASSUME NEW r \in requests
        PROVE  LET q == Deaf(c, r) IN
               /\ q \in RequestRow /\ q.step = r.step
               /\ q.kind = r.kind /\ q.run = r.run /\ q.call = r.call /\ q.at = r.at
               /\ q.role = r.role /\ q.status = r.status
               /\ q.heard => q = r /\ r.heard /\ r \notin Outstanding(c)
               /\ ~q.heard => (~r.heard \/ r \in Outstanding(c))
    <2>1. r \in RequestRow
      BY DEF RequestsGood, RequestGood
    <2>2. CASE r \in Outstanding(c)
      BY <2>1, <2>2, DesktopRequestStep DEF Deaf
    <2>3. CASE r \notin Outstanding(c)
      BY <2>1, <2>3 DEF Deaf
    <2> QED
      BY <2>2, <2>3
  <1> QED
    BY <1>2, <1>3, <1>4

LEMMA PostsMessage ==
    ASSUME RowsGood, PagesGood, NEW c \in Clients, PostMessage(c), requests' # requests
    PROVE  /\ UNCHANGED pages /\ Holds(pages[c].run) /\ pages[c].next = Len(transcript)
           /\ \E r : /\ requests' = requests \cup {r}
                    /\ Sent(c, r, "message") /\ r.role = RoleOf(pages[c])
  <1> DEFINE role == RoleOf(pages[c])
             ok == pages[c].ok
             clears == role \in {"answer", "toolResult"} /\ session.waiting = pages[c].call
             r == MessageRequest(c, role, ok, clears)
  <1>1. /\ UNCHANGED pages /\ Holds(pages[c].run) /\ pages[c].next = Len(transcript)
        /\ requests' = requests \cup {r}
    BY DEF PostMessage, MessageRequest
  <1>2. pages[c] \in PageRow /\ PageGood(pages[c]) /\ pages[c].run # 0
    BY DEF PagesGood, PagesTyped, PostMessage, Ready
  <1>3. role \in Roles /\ clears \in BOOLEAN /\ ok \in BOOLEAN
    BY <1>2 DEF RoleOf, Roles, PageRow
  <1>4. role = "toolResult" => pages[c].call # 0
    BY <1>2 DEF RoleOf, PostMessage, Ready, PageGood
  <1> HIDE DEF role, ok, clears
  <1>5. Sent(c, r, "message") /\ r.role = role
    BY <1>2, <1>3, <1>4, NewRequest
  <1> HIDE DEF r
  <1> QED
    BY <1>1, <1>5 DEF role

LEMMA RequestsStay ==
    ASSUME RowsGood, RequestsGood, PagesGood, Next
    PROVE  RequestsGood'
  <1> USE Constants
  <1>1. \A r : RequestGood(r) => RequestGood(r)'
    BY Counted, RequestStays
  <1>2. ASSUME requests' \subseteq requests PROVE RequestsGood'
    BY <1>1, <1>2, FS_Subset DEF RequestsGood
  <1>3. ASSUME NEW r, requests' = requests \cup {r}, RequestGood(r) PROVE RequestsGood'
    <2>1. IsFiniteSet(requests \cup {r})
      BY FS_AddElement DEF RequestsGood
    <2> QED
      BY <1>1, <1>3, <2>1 DEF RequestsGood
  <1>4. ASSUME NEW r \in requests, Execute(r) PROVE RequestsGood'
    <2>1. PICK ok \in BOOLEAN :
            requests' = (requests \ {r}) \cup {[r EXCEPT !.step = "store", !.ok = ok]}
      <3>1. PICK works \in BOOLEAN :
              requests' = (requests \ {r}) \cup {[r EXCEPT !.step = "store", !.ok = works /\ Current(r)]}
        BY <1>4 DEF Execute
      <3>2. (works /\ Current(r)) \in BOOLEAN
        BY DEF Current
      <3> QED
        BY <3>1, <3>2
    <2> DEFINE q == [r EXCEPT !.step = "store", !.ok = ok]
    <2>2. RequestGood(r) /\ r \in RequestRow /\ r.step = "execute"
      BY <1>4 DEF RequestsGood, RequestGood, Execute
    <2>3. RequestGood(q)
      <3>1. /\ q \in RequestRow /\ q.step = "store"
            /\ q.kind = r.kind /\ q.run = r.run /\ q.call = r.call
            /\ q.role = r.role /\ q.status = r.status
        BY <2>2, DesktopRequestStep
      <3> HIDE DEF q
      <3> QED
        BY <2>2, <3>1 DEF RequestGood
    <2> HIDE DEF q
    <2>4. IsFiniteSet((requests \ {r}) \cup {q})
      BY FS_RemoveElement, FS_AddElement DEF RequestsGood
    <2>5. requests' = (requests \ {r}) \cup {q}
      BY <2>1 DEF q
    <2> QED
      BY <1>1, <2>3, <2>4, <2>5 DEF RequestsGood
  <1>5. ASSUME NEW c \in Clients, Reload(c) \/ NetworkFails(c) PROVE RequestsGood'
    <2>1. requests' = {Deaf(c, r) : r \in requests} /\ IsFiniteSet(requests')
      BY <1>5, UnheardImage DEF Reload, NetworkFails
    <2>2. ASSUME NEW r \in requests PROVE RequestGood(Deaf(c, r))
      <3> DEFINE q == Deaf(c, r)
      <3>1. /\ q \in RequestRow /\ q.step = r.step
            /\ q.kind = r.kind /\ q.run = r.run /\ q.call = r.call
            /\ q.role = r.role /\ q.status = r.status
        BY UnheardImage
      <3> HIDE DEF q
      <3>2. RequestGood(q)
        BY <3>1 DEF RequestsGood, RequestGood
      <3> QED
        BY <3>2 DEF q
    <2> QED
      BY <1>1, <2>1, <2>2 DEF RequestsGood
  <1>6. ASSUME NEW c \in Clients, PostMessage(c) \/ RequestTool(c) \/ PostComplete(c) PROVE RequestsGood'
    <2>1. pages[c] \in PageRow /\ PageGood(pages[c]) /\ pages[c].run # 0
      BY <1>6 DEF PagesGood, PagesTyped, PostMessage, RequestTool, PostComplete, Ready
    <2>2. CASE requests' = requests
      BY <1>2, <2>2
    <2>3. CASE PostMessage(c) /\ requests' # requests
      BY <1>3, <2>3, PostsMessage DEF Sent
    <2>4. CASE RequestTool(c) /\ requests' # requests
      <3>1. requests' = requests \cup {ToolRequest(c)}
        BY <2>4 DEF RequestTool, ToolRequest
      <3> QED
        BY <1>3, <2>1, <3>1, NewRequest DEF Sent
    <2>5. CASE PostComplete(c) /\ requests' # requests
      <3>1. requests' = requests \cup {CompleteRequest(c, StatusAfter(pages[c]))}
        BY <2>5 DEF PostComplete, CompleteRequest
      <3> QED
        BY <1>3, <2>1, <3>1, NewRequest, StatusIsEnd DEF Sent
    <2> QED
      BY <1>6, <2>2, <2>3, <2>4, <2>5
  <1>7. ASSUME RowStep PROVE requests' \subseteq requests
    BY <1>7 DEF RowStep, MemberStep, Expiry, Schedule, SendMessage, AnswerQuestion, Wake,
                CancelSession, ScheduleSessionTurn, Sleep, SchedulingFails, Stall,
                LeaseExpires, CallLeaseExpires
  <1>8. ASSUME NEW r \in requests,
               AppendMessage(r) \/ StoreResult(r) \/ CompleteTurn(r) \/ ServerFails(r)
        PROVE  requests' \subseteq requests
    BY <1>8 DEF AppendMessage, StoreResult, CompleteTurn, ServerFails
  <1>9. ASSUME NEW c \in Clients, ClaimRead(c) \/ ClaimWrite(c) \/ Think(c)
        PROVE  requests' \subseteq requests
    BY <1>9 DEF ClaimRead, ClaimWrite, Think
  <1> QED
    BY <1>2, <1>4, <1>5, <1>6, <1>7, <1>8, <1>9
    DEF Next, RowStep, MemberStep, ServerStep, PageStep, Environment, Expiry
-----------------------------------------------------------------------------
(* Order.  A page that goes on in its turn, or leaves it: it never goes    *)
(* back, and it is about no call it was not about before.                  *)
Goes(p, q) ==
    /\ q \in PageRow /\ PageGood(q)
    /\ \/ q = Idle
       \/ /\ q.run = p.run /\ q.next >= p.next
          /\ Wants(q) => /\ Wants(p) /\ q.call = p.call /\ q.strict = p.strict
                         /\ q.strict => q.next = p.next

LEMMA GoodPages ==
    ASSUME PagesGood
    PROVE  \A c \in Clients : /\ pages[c] \in PageRow /\ PageGood(pages[c])
                             /\ pages[c].next \in Nat /\ pages[c].run \in Nat
  <1>1. \A p \in PageRow : p.next \in Nat /\ p.run \in Nat
    BY Constants DEF PageRow
  <1>2. \A c \in Clients : pages[c] \in PageRow /\ PageGood(pages[c])
    BY DEF PagesGood, PagesTyped
  <1> QED
    BY <1>1, <1>2

LEMMA IdleGoes == ASSUME RowsGood, NEW p PROVE Goes(p, Idle)
  <1>1. 0 <= runs /\ 0 <= used
    BY Constants DEF RowsGood
  <1> QED
    BY <1>1, IdlePage DEF Goes, PageGood

LEMMA MessageGoes ==
    ASSUME NEW p \in PageRow, PageGood(p), NEW ok \in BOOLEAN, p.pc \in {"first", "say", "tell"}
    PROVE  /\ Goes(p, AfterMessage(p, ok)) /\ AfterMessage(p, ok).next = p.next + 1
           /\ Wants(AfterMessage(p, ok)) => p.pc = "say" /\ ~p.strict
  <1> DEFINE q == AfterMessage(p, ok)
  <1>1. p.pc = "say" => ~p.strict /\ p.run # 0
    BY DEF PageGood
  <1>2. /\ q \in PageRow /\ q.run = p.run /\ q.next = p.next + 1 /\ q.call = p.call
        /\ ~q.strict /\ q.pc \in {"call", "think", "end"}
        /\ q.pc = "call" => p.pc = "say" /\ p.call # 0
    BY <1>1, MessagePage
  <1> HIDE DEF q
  <1>3. p.next \in Nat /\ p.strict \in BOOLEAN /\ q.strict \in BOOLEAN
    BY <1>2 DEF PageRow
  <1>4. q.next >= p.next
    BY <1>2, <1>3
  <1>5. PageGood(q)
    BY <1>1, <1>2 DEF PageGood
  <1>6. Wants(q) => p.pc = "say" /\ p.call # 0 /\ ~p.strict
    BY <1>1, <1>2 DEF Wants
  <1>7. Goes(p, q)
    BY <1>2, <1>3, <1>4, <1>5, <1>6 DEF Goes, Wants
  <1> QED
    BY <1>2, <1>6, <1>7 DEF q

LEMMA ToolGoes ==
    ASSUME NEW p \in PageRow, PageGood(p), NEW ok \in BOOLEAN, p.pc = "call", p.run # 0,
           NEW q \in AfterTool(p, ok)
    PROVE  Goes(p, q)
  <1>1. /\ q \in PageRow /\ q.run = p.run /\ q.next = p.next /\ q.call = p.call
        /\ q.strict = p.strict /\ q.pc \in {"tell", "end"} /\ p.next \in Nat
    BY ToolPages DEF PageRow
  <1>2. PageGood(q) /\ q.next >= p.next
    BY <1>1 DEF PageGood
  <1> QED
    BY <1>1, <1>2 DEF Goes, Wants, PageGood

LEMMA ErrorGoes ==
    ASSUME RowsGood, NEW p \in PageRow, PageGood(p), p.run # 0, NEW q \in AfterError(p)
    PROVE  /\ Goes(p, q)
           /\ p.pc \in {"first", "say", "tell"} =>
                  q = Idle \/ (q.next > p.next /\ (Wants(q) => p.pc = "say"))
  <1>1. p.pc # "off" /\ p.next \in Nat
    BY DEF PageGood, PageRow
  <1>2. CASE p.pc \in {"first", "say", "tell"}
    <2>1. q = AfterMessage(p, FALSE)
      BY <1>2 DEF AfterError
    <2>2. Goes(p, q) /\ q.next = p.next + 1 /\ (Wants(q) => p.pc = "say")
      BY <1>2, <2>1, MessageGoes
    <2> QED
      BY <1>1, <2>2
  <1>3. CASE p.pc = "call"
    BY <1>3, ToolGoes DEF AfterError
  <1>4. CASE p.pc = "think"
    <2>1. q = [p EXCEPT !.failed = TRUE, !.pc = "end"]
      BY <1>4 DEF AfterError
    <2>2. /\ q \in PageRow /\ q.run = p.run /\ q.next = p.next /\ q.call = p.call /\ q.pc = "end"
          /\ q.role = p.role /\ q.strict = p.strict
      BY <2>1 DEF PageRow
    <2>3. Goes(p, q)
      BY <1>1, <2>2 DEF Goes, PageGood, Wants
    <2> QED
      BY <1>4, <2>3
  <1>5. CASE p.pc = "end"
    BY <1>5, IdleGoes DEF AfterError
  <1> QED
    BY <1>1, <1>2, <1>3, <1>4, <1>5 DEF PageRow

(* One page goes on, nobody works for it any more, nothing is asked.       *)
Turned == \/ UNCHANGED pages
          \/ \E c \in Clients : \E q : /\ Goes(pages[c], q) /\ PageTo(c, q)
                                        /\ \A r \in requests' : r.heard => r.run # pages[c].run

LEMMA PagesMove ==
    ASSUME RowsGood, RequestsGood, PagesGood, Heard, Passed,
           requests' \subseteq requests, UNCHANGED <<runs, used>>, Turned
    PROVE  /\ PagesGood' /\ Heard' /\ Passed'
           /\ \A c \in Clients : \/ pages'[c] = pages[c]
                                 \/ Goes(pages[c], pages'[c])
  <1>1. \A r \in requests : r.run # 0 /\ r.at \in Nat
    BY RequestNumbers
  <1>2. \A q, r \in requests' : q.heard /\ r.heard /\ q.run = r.run => q = r
    BY DEF Heard
  <1>3. CASE UNCHANGED pages
    <2>1. \A c : Outstanding(c)' \subseteq Outstanding(c)
      BY <1>3 DEF Outstanding
    <2>2. PagesGood' /\ Passed'
      BY <1>3 DEF PagesGood, PagesTyped, PageGood, Passed, Messages
    <2> QED
      BY <1>2, <1>3, <2>1, <2>2 DEF Heard, Awaits
  <1>4. ASSUME NEW c \in Clients, NEW q, Goes(pages[c], q), PageTo(c, q),
               \A r \in requests' : r.heard => r.run # pages[c].run
        PROVE  /\ PagesGood' /\ Heard' /\ Passed'
               /\ \A d \in Clients : pages'[d] = pages[d] \/ Goes(pages[d], pages'[d])
    <2>1. /\ pages'[c] = q /\ pages' \in [Clients -> PageRow]
          /\ \A d \in Clients : d # c => pages'[d] = pages[d]
      BY <1>4 DEF PageTo, PagesGood, PagesTyped, Goes
    <2>2. q.run \in {0, pages[c].run} /\ PageGood(q)
      BY <1>4, IdlePage DEF Goes
    <2>3. PagesGood'
      <3>1. \A d \in Clients : PageGood(pages[d])'
        BY <2>1, <2>2 DEF PagesGood, PageGood
      <3>2. \A d, e \in Clients : pages'[d].run # 0 /\ pages'[d].run = pages'[e].run => d = e
        BY <2>1, <2>2 DEF PagesGood
      <3> QED
        BY <2>1, <3>1, <3>2 DEF PagesGood, PagesTyped
    <2>4. Outstanding(c)' = {}
      BY <1>1, <1>4, <2>1, <2>2 DEF Outstanding
    <2>5. \A d \in Clients : d # c => Outstanding(d)' \subseteq Outstanding(d)
      BY <2>1 DEF Outstanding
    <2>6. Heard'
      <3>1. ASSUME NEW d \in Clients, NEW r \in Outstanding(d)' PROVE Awaits(pages[d], r)'
        BY <2>1, <2>4, <2>5 DEF Heard, Awaits
      <3> QED
        BY <1>2, <3>1 DEF Heard
    <2>7. ASSUME NEW d \in Clients, NEW r \in Messages', ~r.heard, r.run = pages'[d].run
          PROVE  pages'[d].next > r.at
      <3>1. r \in Messages /\ r.run # 0 /\ r.at \in Nat
        BY <1>1 DEF Messages
      <3>2. r.run = pages[d].run
        BY <2>1, <2>2, <2>7, <3>1
      <3>3. pages[d].next > r.at /\ pages[d].next \in Nat
        BY <2>7, <3>1, <3>2, GoodPages DEF Passed
      <3>4. CASE d = c
        <4>1. q.next >= pages[c].next /\ q.next \in Nat
          BY <1>4, <2>1, <2>7, <3>1, <3>4, IdlePage DEF Goes, PageRow
        <4> QED
          BY <2>1, <3>1, <3>3, <3>4, <4>1
      <3> QED
        BY <2>1, <3>3, <3>4
    <2>8. Passed'
      BY <2>7 DEF Passed
    <2> QED
      BY <1>4, <2>1, <2>3, <2>6, <2>8
  <1> QED
    BY <1>3, <1>4 DEF Turned

(* What a page that goes on wants has still no result.                     *)
LEMMA StaysUntold ==
    ASSUME NEW p \in PageRow, NEW q, Goes(p, q), Wants(q), Untold(p)
    PROVE  Untold(q)
  BY IdlePage DEF Goes, Untold

LEMMA Settles ==
    ASSUME RowsGood, RequestsGood, Order, Numbers',
           requests' \subseteq requests, UNCHANGED <<transcript, runs, used>>, Turned,
           session'.run \in {session.run, 0}
    PROVE  Order'
  <1>1. /\ PagesGood' /\ Heard' /\ Passed'
        /\ \A c \in Clients : pages'[c] = pages[c] \/ Goes(pages[c], pages'[c])
    BY PagesMove DEF Order
  <1>2. \A r \in requests' : /\ r.run # 0 /\ (Current(r)' => Current(r))
    BY RequestNumbers DEF Current
  <1>3. Messages' \subseteq Messages
    BY DEF Messages
  <1>4. \A k : Resulted(k)' <=> Resulted(k)
    BY DEF Resulted
  <1>5. InFlight'
    BY <1>2, <1>3, <1>4 DEF Order, InFlight, Fits, Messages
  <1>6. Saved'
    BY DEF Order, Saved, SavedAt
  <1>7. ASSUME NEW c \in Clients, pages'[c].run \in {0, session'.run}, Wants(pages'[c])
        PROVE  Untold(pages[c])'
    <2>1. pages[c] \in PageRow /\ pages'[c] \in PageRow
      BY <1>1 DEF Order, PagesGood, PagesTyped
    <2>2. /\ Wants(pages[c]) /\ pages[c].run = pages'[c].run
          /\ Untold(pages[c]) => Untold(pages'[c])
      BY <1>1, <1>7, <2>1, IdlePage, StaysUntold DEF Goes
    <2>3. pages[c].run \in {0, session.run}
      BY <1>7, <2>2
    <2>4. Untold(pages'[c])
      BY <2>2, <2>3 DEF Order, PagesUntold
    <2> QED
      BY <1>2, <1>3, <1>4, <2>4 DEF Untold, Messages
  <1> QED
    BY <1>1, <1>5, <1>6, <1>7 DEF Order, PagesUntold

(* A page asks for something: what it says goes to the end of the          *)
(* transcript, and nothing of its turn is under way.                       *)
LEMMA Asks ==
    ASSUME RowsGood, RequestsGood, Order, NEW c \in Clients, NEW r,
           requests' = requests \cup {r},
           UNCHANGED <<session, transcript, pages, runs, used>>,
           Outstanding(c) = {}, pages[c].run # 0, r.heard, r.run = pages[c].run,
           Awaits(pages[c], r), r.kind = "message" => Current(r) /\ Fits(r)
    PROVE  Order'
  <1>1. PagesGood' /\ Saved' /\ Numbers'
    BY DEF Order, PagesGood, PagesTyped, PageGood, Saved, SavedAt, Numbers
  <1>2. \A q \in requests : q.heard => q.run # pages[c].run
    BY DEF Outstanding
  <1>3. Heard'
    <2>1. ASSUME NEW d \in Clients, NEW q \in Outstanding(d)' PROVE Awaits(pages[d], q)'
      <3>1. CASE q = r
        <4>1. d = c
          BY <2>1, <3>1 DEF Outstanding, Order, PagesGood
        <4> QED
          BY <3>1, <4>1 DEF Awaits
      <3>2. CASE q # r
        BY <2>1, <3>2 DEF Outstanding, Order, Heard, Awaits
      <3> QED
        BY <3>1, <3>2
    <2>2. \A q, s \in requests' : q.heard /\ s.heard /\ q.run = s.run => q = s
      BY <1>2 DEF Order, Heard
    <2> QED
      BY <2>1, <2>2 DEF Heard
  <1>4. Passed'
    BY DEF Order, Passed, Messages
  <1>5. ASSUME r.kind = "message", NEW q \in Messages, Current(q) PROVE FALSE
    <2>1. q.run = pages[c].run /\ q.at = Len(transcript) /\ r.at = Len(transcript)
      BY <1>5 DEF Current, Order, InFlight, Fits
    <2>2. ~q.heard
      BY <1>2, <1>5, <2>1 DEF Messages
    <2>3. pages[c].next > q.at
      BY <1>5, <2>1, <2>2 DEF Order, Passed
    <2>4. r.at = pages[c].next
      BY <1>5 DEF Awaits
    <2>5. Len(transcript) \in Nat
      BY Lengths
    <2> QED
      BY <2>1, <2>3, <2>4, <2>5
  <1>6. InFlight'
    <2>1. \A k : Resulted(k)' <=> Resulted(k)
      BY DEF Resulted
    <2>2. \A q : Current(q)' <=> Current(q)
      BY DEF Current
    <2>3. Messages' \subseteq Messages \cup {r} /\ (r.kind # "message" => Messages' \subseteq Messages)
      BY DEF Messages
    <2>4. \A q \in Messages' : Current(q)' => Fits(q)'
      BY <2>1, <2>2, <2>3 DEF Order, InFlight, Fits
    <2>5. \A q, s \in Messages' : Current(q)' /\ Current(s)' => q = s
      BY <1>5, <2>2, <2>3 DEF Order, InFlight
    <2> QED
      BY <2>4, <2>5 DEF InFlight
  <1>7. PagesUntold'
    BY DEF Order, PagesUntold, Untold, Wants, Resulted, Current, Messages
  <1> QED
    BY <1>1, <1>3, <1>4, <1>6, <1>7 DEF Order

(* A tool has done its work, and its result is about to be stored.         *)
LEMMA Works ==
    ASSUME RowsGood, RequestsGood, Order, Numbers', NEW r \in requests, NEW q,
           r.kind = "tool", q.kind = r.kind, q.run = r.run, q.heard = r.heard,
           requests' = (requests \ {r}) \cup {q},
           UNCHANGED <<transcript, pages, runs, used>>, session'.run = session.run
    PROVE  Order'
  <1>1. PagesGood' /\ Saved'
    BY DEF Order, PagesGood, PagesTyped, PageGood, Saved, SavedAt
  <1>2. Messages' = Messages
    BY DEF Messages
  <1>3. Heard'
    <2>1. ASSUME NEW d \in Clients, NEW s \in Outstanding(d)' PROVE Awaits(pages[d], s)'
      <3>1. CASE s = q
        <4>1. r \in Outstanding(d)
          BY <2>1, <3>1 DEF Outstanding
        <4>2. pages[d].pc = "call"
          BY <4>1 DEF Order, Heard, Awaits
        <4> QED
          BY <3>1, <4>2 DEF Awaits
      <3>2. CASE s # q
        BY <2>1, <3>2 DEF Outstanding, Order, Heard, Awaits
      <3> QED
        BY <3>1, <3>2
    <2>2. \A s, t \in requests' : s.heard /\ t.heard /\ s.run = t.run => s = t
      BY DEF Order, Heard
    <2> QED
      BY <2>1, <2>2 DEF Heard
  <1>4. Passed'
    BY <1>2 DEF Order, Passed
  <1>5. \A s : Current(s)' <=> Current(s)
    BY DEF Current
  <1>6. \A k : Resulted(k)' <=> Resulted(k)
    BY DEF Resulted
  <1>7. InFlight'
    BY <1>2, <1>5, <1>6 DEF Order, InFlight, Fits
  <1>8. PagesUntold'
    BY <1>2, <1>5, <1>6 DEF Order, PagesUntold, Untold, Wants
  <1> QED
    BY <1>1, <1>3, <1>4, <1>7, <1>8 DEF Order

(* The page of c stops waiting: what it asked for goes on by itself.       *)
LEMMA GivesUp ==
    ASSUME RowsGood, RequestsGood, Order, NEW c \in Clients, NEW q,
           requests' = Unheard(c), PageTo(c, q), Goes(pages[c], q),
           pages[c].pc \in {"first", "say", "tell"} =>
               q = Idle \/ (q.next > pages[c].next /\ (Wants(q) => pages[c].pc = "say")),
           UNCHANGED <<session, transcript, runs, used>>
    PROVE  Order'
  <1> DEFINE kept == requests \ Outstanding(c)
  <1>1. /\ pages'[c] = q /\ pages' \in [Clients -> PageRow]
        /\ \A d \in Clients : d # c => pages'[d] = pages[d]
    BY DEF PageTo, Order, PagesGood, PagesTyped, Goes
  <1>2. q.run \in {0, pages[c].run} /\ PageGood(q)
    BY IdlePage DEF Goes
  <1>3. PagesGood'
    <2>1. \A d \in Clients : PageGood(pages[d])'
      BY <1>1, <1>2 DEF Order, PagesGood, PageGood
    <2>2. \A d, e \in Clients : pages'[d].run # 0 /\ pages'[d].run = pages'[e].run => d = e
      BY <1>1, <1>2 DEF Order, PagesGood
    <2> QED
      BY <1>1, <2>1, <2>2 DEF PagesGood, PagesTyped
  <1>4. Saved' /\ Numbers'
    BY DEF Order, Saved, SavedAt, Numbers
  <1>5. requests' = {Deaf(c, r) : r \in requests}
    BY UnheardImage
  <1>6. ASSUME NEW s \in requests'
        PROVE  \E r \in requests :
                 /\ s = Deaf(c, r) /\ s.kind = r.kind /\ s.run = r.run /\ s.call = r.call
                 /\ s.at = r.at /\ s.role = r.role /\ r.run # 0 /\ r.at \in Nat
                 /\ s.heard => s = r /\ r.heard /\ r \notin Outstanding(c)
                 /\ ~s.heard => (~r.heard \/ r \in Outstanding(c))
    BY <1>5, UnheardImage, RequestNumbers
  <1>7. \A s \in requests' : s.heard => s \in requests /\ s.run # pages[c].run /\ s.run # 0
    BY <1>6 DEF Outstanding
  <1>8. Heard'
    <2>1. ASSUME NEW d \in Clients, NEW s \in Outstanding(d)' PROVE Awaits(pages[d], s)'
      <3>1. s \in requests' /\ s.heard /\ s.run = pages'[d].run
        BY <2>1 DEF Outstanding
      <3>2. d # c /\ s \in Outstanding(d)
        BY <1>1, <1>2, <1>7, <3>1 DEF Outstanding
      <3> QED
        BY <1>1, <3>2 DEF Order, Heard, Awaits
    <2>2. \A s, t \in requests' : s.heard /\ t.heard /\ s.run = t.run => s = t
      BY <1>7 DEF Order, Heard
    <2> QED
      BY <2>1, <2>2 DEF Heard
  <1>9. ASSUME NEW r \in Outstanding(c), r.kind = "message"
        PROVE  /\ pages[c].pc \in {"first", "say", "tell"} /\ r.at = pages[c].next
               /\ r.role = RoleOf(pages[c]) /\ r.run = pages[c].run
    BY <1>9 DEF Order, Heard, Awaits, Outstanding
  <1>10. Passed'
    <2>1. ASSUME NEW d \in Clients, NEW s \in Messages', ~s.heard, s.run = pages'[d].run
          PROVE  pages'[d].next > s.at
      <3>1. PICK r \in requests :
                 /\ s.kind = r.kind /\ s.run = r.run /\ s.at = r.at /\ r.run # 0 /\ r.at \in Nat
                 /\ (~r.heard \/ r \in Outstanding(c))
        BY <1>6, <2>1 DEF Messages
      <3>2. r \in Messages /\ r.kind = "message" /\ r.run = pages[d].run
            /\ (d = c => q # Idle)
        BY <1>1, <1>2, <2>1, <3>1, IdlePage DEF Messages
      <3>3. d = c => q.next >= pages[c].next /\ q.next \in Nat /\ pages[c].next \in Nat
        BY <3>2, GoodPages DEF Goes, PageRow, Order
      <3>4. CASE ~r.heard
        <4>1. pages[d].next > r.at /\ pages[d].next \in Nat
          BY <3>2, <3>4, GoodPages DEF Order, Passed
        <4> QED
          BY <1>1, <3>1, <3>3, <4>1
      <3>5. CASE r \in Outstanding(c)
        <4>1. d = c
          BY <3>1, <3>2, <3>5, <1>9 DEF Order, PagesGood
        <4>2. r.at = pages[c].next /\ pages[c].pc \in {"first", "say", "tell"}
          BY <3>2, <3>5, <1>9
        <4> QED
          BY <1>1, <3>1, <3>2, <4>1, <4>2
      <3> QED
        BY <3>1, <3>4, <3>5
    <2> QED
      BY <2>1 DEF Passed
  <1>11. \A k : Resulted(k)' <=> Resulted(k)
    BY DEF Resulted
  <1>12. ASSUME NEW s \in Messages', Current(s)'
         PROVE  \E r \in Messages : /\ s = Deaf(c, r) /\ Current(r) /\ s.run = r.run
                                    /\ s.call = r.call /\ s.at = r.at /\ s.role = r.role
                                    /\ ~s.heard => (~r.heard \/ r \in Outstanding(c))
    BY <1>6, <1>12 DEF Messages, Current
  <1>13. InFlight'
    <2>1. \A s \in Messages' : Current(s)' => Fits(s)'
      BY <1>11, <1>12 DEF Order, InFlight, Fits
    <2>2. \A s, t \in Messages' : Current(s)' /\ Current(t)' => s = t
      BY <1>12 DEF Order, InFlight
    <2> QED
      BY <2>1, <2>2 DEF InFlight
  <1>14. ASSUME NEW d \in Clients, pages'[d].run \in {0, session'.run}, Wants(pages'[d])
         PROVE  Untold(pages[d])'
    <2>1. pages[d] \in PageRow /\ PageGood(pages[d])
      BY GoodPages DEF Order
    <2>2. /\ Wants(pages[d]) /\ pages[d].run = pages'[d].run
          /\ Untold(pages[d]) => Untold(pages'[d])
          /\ pages'[d].strict <=> pages[d].strict
      BY <1>1, <1>14, <2>1, IdlePage, StaysUntold DEF Goes
    <2>3. pages[d].run \in {0, session.run}
      BY <1>14, <2>2
    <2>4. Untold(pages'[d])
      BY <2>2, <2>3 DEF Order, PagesUntold
    <2>5. CASE pages'[d].strict
      BY <1>11, <2>4, <2>5 DEF Untold
    <2>6. CASE ~pages'[d].strict
      <3>1. ASSUME NEW s \in Messages', ~s.heard, Current(s)', s.role = "toolResult",
                   s.call = pages'[d].call
            PROVE  FALSE
        <4>1. PICK r \in Messages : /\ Current(r) /\ s.call = r.call /\ r.role = "toolResult"
                                   /\ (~r.heard \/ r \in Outstanding(c))
          BY <1>12, <3>1
        <4>2. r \in Outstanding(c)
          BY <2>4, <2>6, <3>1, <4>1 DEF Untold
        <4>3. /\ pages[c].pc \in {"first", "say", "tell"} /\ RoleOf(pages[c]) = "toolResult"
              /\ session.run = pages[c].run /\ pages[c].run # 0
          <5>1. r \in requests /\ r.kind = "message" /\ r.run # 0
            BY <4>1, RequestNumbers DEF Messages
          <5>2. /\ pages[c].pc \in {"first", "say", "tell"}
                /\ r.role = RoleOf(pages[c]) /\ r.run = pages[c].run
            BY <1>9, <4>2, <5>1
          <5> QED
            BY <4>1, <5>1, <5>2 DEF Current
        <4>4. pages[c].pc = "tell"
          BY <4>3, GoodPages DEF RoleOf, Order, PageGood
        <4>5. d # c
          BY <1>1, <1>14, <4>4, IdlePage
        <4>6. pages[d].run = 0
          BY <2>3, <4>3, <4>5 DEF Order, PagesGood
        <4> QED
          BY <2>1, <2>2, <2>6, <4>6 DEF PageGood, Wants
      <3> QED
        BY <1>11, <2>4, <2>6, <3>1 DEF Untold
    <2> QED
      BY <2>5, <2>6
  <1> QED
    BY <1>3, <1>4, <1>8, <1>10, <1>13, <1>14 DEF Order, PagesUntold
LEMMA ClaimReads ==
    ASSUME RowsGood, RequestsGood, Order, NEW c \in Clients, ClaimRead(c)
    PROVE  Order'
  <1> DEFINE q == Start([Idle EXCEPT !.next = Len(transcript)])
  <1>1. /\ q \in PageRow /\ q.run = 0 /\ q.next = Len(transcript) /\ q.call <= used
        /\ q.pc \in {"first", "call", "end", "think"}
        /\ q.pc = "first" => q.role \in {"user", "answer"}
        /\ q.pc = "call" => q.strict /\ q.call # 0 /\ ~Resulted(q.call)
        /\ q.pc = "think" => ~q.strict
    BY StartPage DEF Order
  <1>2. /\ PageTo(c, q) /\ pages[c].pc = "off"
        /\ UNCHANGED <<session, transcript, requests, runs, used>>
    BY DEF ClaimRead, counts
  <1> HIDE DEF q
  <1>3. /\ pages'[c] = q /\ pages' \in [Clients -> PageRow] /\ pages[c].run = 0
        /\ \A d \in Clients : d # c => pages'[d] = pages[d]
    BY <1>1, <1>2 DEF PageTo, Order, PagesGood, PagesTyped, PageGood
  <1>4. PageGood(q)
    <2>1. 0 <= runs
      BY Constants DEF RowsGood
    <2> QED
      BY <1>1, <2>1 DEF PageGood
  <1>5. PagesGood'
    BY <1>1, <1>2, <1>3, <1>4 DEF Order, PagesGood, PagesTyped, PageGood
  <1>6. Heard' /\ Passed'
    BY <1>1, <1>2, <1>3, RequestNumbers DEF Order, Heard, Passed, Outstanding, Awaits, Messages
  <1>7. InFlight' /\ Saved' /\ Numbers'
    BY <1>2 DEF Order, InFlight, Messages, Current, Fits, Resulted, Saved, SavedAt, Numbers
  <1>8. PagesUntold'
    <2>1. ASSUME NEW d \in Clients, pages'[d].run \in {0, session'.run}, Wants(pages'[d])
          PROVE  Untold(pages[d])'
      <3>1. CASE d = c
        <4>1. q.strict /\ q.next <= Len(transcript) /\ ~Resulted(q.call)
          BY <1>1, <1>3, <2>1, <3>1, Lengths DEF Wants
        <4> QED
          BY <1>2, <1>3, <3>1, <4>1 DEF Untold, Resulted
      <3>2. CASE d # c
        BY <1>2, <1>3, <2>1, <3>2 DEF Order, PagesUntold, Untold, Resulted, Current, Messages
      <3> QED
        BY <3>1, <3>2
    <2> QED
      BY <2>1 DEF PagesUntold
  <1> QED
    BY <1>5, <1>6, <1>7, <1>8 DEF Order

(* A new run has nothing to do with what was asked for before it.          *)
LEMMA ClaimWrites ==
    ASSUME RowsGood, RequestsGood, Order, NEW c \in Clients, ClaimWrite(c), Numbers'
    PROVE  Order'
  <1> DEFINE n == runs + 1
             p == pages[c]
  <1>q. PICK q : q = [p EXCEPT !.run = n]
    OBVIOUS
  <1>1. /\ runs' = n /\ n \in 0..MaxRuns /\ runs \in Nat /\ n > runs /\ n # 0
        /\ p \in PageRow /\ PageGood(p) /\ p.run = 0 /\ p.pc # "off"
    BY Constants, GoodPages DEF ClaimWrite, RowsGood, Order
  <1>2. session'.run = n
    BY DEF ClaimWrite, RowsGood, SessionRow
  <1>3. PageTo(c, q) /\ UNCHANGED <<transcript, requests, used>>
    BY <1>q DEF ClaimWrite
  <1> HIDE DEF n, p
  <1>4. /\ q \in PageRow /\ q.run = n /\ q.next = p.next /\ q.pc = p.pc /\ q.call = p.call
        /\ q.strict = p.strict /\ q.role = p.role
    BY <1>1, <1>q DEF PageRow
  <1>5. /\ pages'[c] = q /\ pages' \in [Clients -> PageRow]
        /\ \A d \in Clients : d # c => pages'[d] = pages[d]
    BY <1>3, <1>4 DEF PageTo, Order, PagesGood, PagesTyped
  <1>6. \A d \in Clients : pages[d].run # n /\ pages[d].run <= n
    <2>1. \A d \in Clients : pages[d].run \in Nat /\ pages[d].run <= runs
      BY GoodPages DEF Order, PageGood
    <2> QED
      BY <1>1, <2>1
  <1>7. \A r \in requests : r.run # n /\ r.run # 0
    BY <1>1, RequestNumbers
  <1>8. PagesGood'
    <2>1. PageGood(q)'
      BY <1>1, <1>3, <1>4 DEF PageGood
    <2>2. \A d \in Clients : PageGood(pages[d])'
      BY <1>1, <1>3, <1>5, <1>6, <2>1 DEF Order, PagesGood, PageGood
    <2>3. \A d, e \in Clients : pages'[d].run # 0 /\ pages'[d].run = pages'[e].run => d = e
      BY <1>4, <1>5, <1>6 DEF Order, PagesGood
    <2> QED
      BY <1>5, <2>2, <2>3 DEF PagesGood, PagesTyped
  <1>9. Heard' /\ Passed'
    BY <1>3, <1>4, <1>5, <1>7 DEF Order, Heard, Passed, Outstanding, Awaits, Messages
  <1>10. \A r \in requests : ~Current(r)'
    BY <1>2, <1>7 DEF Current
  <1>11. InFlight' /\ Saved'
    BY <1>3, <1>10 DEF InFlight, Messages, Order, Saved, SavedAt
  <1>12. ASSUME NEW d \in Clients, pages'[d].run \in {0, session'.run}, Wants(pages'[d])
         PROVE  Untold(pages[d])'
    <2>1. /\ pages[d].run = 0 /\ Wants(pages[d]) /\ (pages'[d].strict <=> pages[d].strict)
          /\ pages'[d].next = pages[d].next /\ pages'[d].call = pages[d].call
      BY <1>1, <1>2, <1>4, <1>5, <1>6, <1>12 DEF Wants, p
    <2>2. Untold(pages[d])
      BY <2>1 DEF Order, PagesUntold
    <2> QED
      BY <1>3, <1>10, <2>1, <2>2 DEF Untold, Resulted, Messages
  <1> QED
    BY <1>8, <1>9, <1>11, <1>12 DEF Order, PagesUntold

(* The model makes a call nobody has heard of.                             *)
LEMMA CallsNew ==
    ASSUME RowsGood, RequestsGood, Order, NEW c \in Clients, Think(c), used' = used + 1, Numbers'
    PROVE  Order'
  <1> DEFINE p == pages[c]
             k == used + 1
  <1>q. PICK q : q = [p EXCEPT !.pc = "say", !.call = k, !.replay = FALSE]
    OBVIOUS
  <1>1. used \in Nat /\ used' = k /\ k > used /\ k \in 0..MaxCalls /\ k # 0
    BY Constants DEF Think, RowsGood
  <1>2. /\ p \in PageRow /\ PageGood(p) /\ p.pc = "think" /\ p.run # 0 /\ Outstanding(c) = {}
        /\ UNCHANGED <<session, transcript, requests, runs>>
    BY GoodPages DEF Think, Ready, Order
  <1>3. PageTo(c, q)
    <2>1. used # used + 1
      BY <1>1
    <2>2. PageTo(c, [[p EXCEPT !.pc = "say", !.call = 0, !.replay = FALSE] EXCEPT !.call = used + 1])
      BY <2>1 DEF Think
    <2>3. [[p EXCEPT !.pc = "say", !.call = 0, !.replay = FALSE] EXCEPT !.call = used + 1] = q
      BY <1>2, <1>q DEF PageRow
    <2> QED
      BY <2>2, <2>3
  <1> HIDE DEF p, k
  <1>4. /\ q \in PageRow /\ q.run = p.run /\ q.next = p.next /\ q.pc = "say" /\ q.call = k
        /\ q.strict = p.strict
    BY <1>1, <1>2, <1>q DEF PageRow
  <1>5. /\ pages'[c] = q /\ pages' \in [Clients -> PageRow]
        /\ \A d \in Clients : d # c => pages'[d] = pages[d]
    BY <1>3, <1>4 DEF PageTo, Order, PagesGood, PagesTyped
  <1>6. PagesGood'
    <2>1. PageGood(q)'
      BY <1>1, <1>2, <1>4 DEF PageGood
    <2>2. \A d \in Clients : pages[d].call \in Nat /\ pages[d].call <= k
      <3>1. \A s \in PageRow : s.call \in Nat
        BY Constants DEF PageRow
      <3> QED
        BY <1>1, <3>1, GoodPages DEF Order, PageGood
    <2>3. \A d \in Clients : PageGood(pages[d])'
      BY <1>1, <1>2, <1>5, <2>1, <2>2 DEF Order, PagesGood, PageGood
    <2>4. \A d, e \in Clients : pages'[d].run # 0 /\ pages'[d].run = pages'[e].run => d = e
      BY <1>4, <1>5 DEF Order, PagesGood, p
    <2> QED
      BY <1>5, <2>3, <2>4 DEF PagesGood, PagesTyped
  <1>7. \A d \in Clients : pages'[d].run = pages[d].run /\ pages'[d].next = pages[d].next
    BY <1>4, <1>5 DEF p
  <1>8. Heard' /\ Passed'
    <2>1. \A d \in Clients : Outstanding(d)' = Outstanding(d)
      BY <1>2, <1>7 DEF Outstanding
    <2>2. \A d \in Clients : \A r \in Outstanding(d) : d # c
      BY <1>2
    <2>3. \A d \in Clients : \A r \in Outstanding(d)' : Awaits(pages[d], r)'
      BY <1>5, <2>1, <2>2 DEF Order, Heard, Awaits
    <2> QED
      BY <1>2, <1>7, <2>3 DEF Order, Heard, Passed, Messages
  <1>9. InFlight'
    BY <1>2 DEF Order, InFlight, Messages, Current, Fits, Resulted
  <1>10. \A i \in 1..Len(transcript) : transcript[i].call \in Nat /\ transcript[i].call <= used
    <2>1. \A m \in Message : m.call \in Nat
      BY Constants DEF Message
    <2> QED
      BY <2>1, Lengths DEF Order, Saved, SavedAt
  <1>11. Saved'
    <2>1. \A i \in 1..Len(transcript) : transcript[i].call <= k
      BY <1>1, <1>10
    <2> QED
      BY <1>1, <1>2, <2>1 DEF Order, Saved, SavedAt
  <1>12. ASSUME NEW d \in Clients, pages'[d].run \in {0, session'.run}, Wants(pages'[d])
         PROVE  Untold(pages[d])'
    <2>1. CASE d = c
      <3>1. ~Resulted(k)
        BY <1>1, <1>10 DEF Resulted
      <3>2. \A r \in Messages : r.call # k
        BY <1>1, RequestNumbers DEF Messages
      <3>3. ~q.strict
        BY <1>2, <1>4 DEF PageGood
      <3> QED
        BY <1>2, <1>4, <1>5, <2>1, <3>1, <3>2, <3>3 DEF Untold, Resulted, Messages
    <2>2. CASE d # c
      BY <1>2, <1>5, <1>12, <2>2 DEF Order, PagesUntold, Untold, Resulted, Current, Messages
    <2> QED
      BY <2>1, <2>2
  <1> QED
    BY <1>6, <1>8, <1>9, <1>11, <1>12 DEF Order, PagesUntold

(* A message is saved where its page said.                                 *)
LEMMA Saves ==
    ASSUME RowsGood, RequestsGood, Order, NEW r \in requests, AppendMessage(r), Current(r),
           Turned, Numbers'
    PROVE  Order'
  <1> DEFINE m == [role |-> r.role, call |-> r.call, ok |-> r.ok, at |-> r.at]
             n == Len(transcript)
  <1>1. /\ r.kind = "message" /\ requests' = requests \ {r} /\ transcript' = Append(transcript, m)
        /\ UNCHANGED <<runs, used>>
    BY DEF AppendMessage, counts
  <1>2. session'.run = session.run
    <2>1. session' = [Touched EXCEPT !.waiting = IF r.clears THEN 0 ELSE @]
      BY DEF AppendMessage
    <2> QED
      BY <2>1 DEF Touched, RowsGood, SessionRow
  <1>3. r \in Messages /\ r \in RequestRow /\ r.call <= used /\ (r.role = "toolResult" => r.call # 0)
    BY <1>1 DEF Messages, RequestsGood, RequestGood
  <1>4. r.at = n /\ (r.role \in {"assistant", "toolResult"} => ~Resulted(r.call))
    BY <1>3 DEF Order, InFlight, Fits
  <1>5. /\ m \in Message /\ m.role = r.role /\ m.call = r.call /\ m.at = r.at
    BY <1>3 DEF RequestRow, Message
  <1> HIDE DEF m
  <1>6. /\ Len(transcript') = n + 1 /\ n \in Nat /\ transcript'[n + 1] = m
        /\ \A i \in 1..n : transcript'[i] = transcript[i]
    BY <1>1, <1>5, SaveMessage, Lengths
  <1>7. /\ PagesGood' /\ Heard' /\ Passed'
        /\ \A c \in Clients : pages'[c] = pages[c] \/ Goes(pages[c], pages'[c])
    BY <1>1, PagesMove DEF Order
  <1>8. \A s \in Messages' : s \in Messages /\ s # r /\ ~Current(s)'
    BY <1>1, <1>2, <1>3 DEF Messages, Order, InFlight, Current
  <1>9. InFlight'
    BY <1>8 DEF InFlight
  <1>10. \A k : Resulted(k)' <=> Resulted(k) \/ (r.role = "toolResult" /\ k = r.call)
    <2>1. ASSUME NEW k, Resulted(k)' PROVE Resulted(k) \/ (r.role = "toolResult" /\ k = r.call)
      <3>1. PICK j \in 1..(n + 1) : transcript'[j].role = "toolResult" /\ transcript'[j].call = k
        BY <1>6, <2>1 DEF Resulted
      <3>2. j \in 1..n \/ j = n + 1
        BY <1>6
      <3> QED
        BY <1>5, <1>6, <3>1, <3>2 DEF Resulted
    <2>2. ASSUME NEW k, Resulted(k) PROVE Resulted(k)'
      <3>1. PICK j \in 1..n : transcript[j].role = "toolResult" /\ transcript[j].call = k
        BY <2>2 DEF Resulted
      <3>2. j \in 1..(n + 1)
        BY <1>6
      <3> QED
        BY <1>6, <3>1, <3>2 DEF Resulted
    <2>3. ASSUME r.role = "toolResult" PROVE Resulted(r.call)'
      <3>1. n + 1 \in 1..(n + 1)
        BY <1>6
      <3> QED
        BY <1>5, <1>6, <2>3, <3>1 DEF Resulted
    <2> QED
      BY <2>1, <2>2, <2>3
  <1>11. ASSUME NEW i \in 1..Len(transcript') PROVE SavedAt(i)'
    <2>1. i \in 1..n \/ i = n + 1
      BY <1>6
    <2>2. ASSUME NEW j \in 1..Len(transcript')
          PROVE  j \in 1..n \/ j = n + 1
      BY <1>6
    <2>3. CASE i \in 1..n
      <3>1. SavedAt(i) /\ transcript'[i] = transcript[i]
        BY <1>6, <2>3 DEF Order, Saved
      <3>2. ASSUME transcript'[i].role = "toolResult", NEW j \in 1..Len(transcript'),
                   transcript'[j].call = transcript'[i].call
            PROVE  /\ transcript'[j].role = "toolResult" => j = i
                   /\ transcript'[j].role = "assistant" => j < i
        <4>1. CASE j \in 1..n
          BY <1>6, <3>1, <3>2, <4>1 DEF SavedAt
        <4>2. CASE j = n + 1
          BY <1>4, <1>5, <1>6, <2>3, <3>1, <3>2, <4>2 DEF Resulted
        <4> QED
          BY <2>2, <4>1, <4>2
      <3> QED
        BY <1>1, <3>1, <3>2 DEF SavedAt
    <2>4. CASE i = n + 1
      <3>1. transcript'[i] = m /\ m.at = i - 1 /\ m.call <= used'
        BY <1>1, <1>3, <1>4, <1>5, <1>6, <2>4
      <3>2. ASSUME m.role = "toolResult", NEW j \in 1..Len(transcript'),
                   transcript'[j].call = m.call
            PROVE  /\ transcript'[j].role = "toolResult" => j = i
                   /\ transcript'[j].role = "assistant" => j < i
        <4>1. CASE j \in 1..n
          <5>1. j < i
            BY <1>6, <2>4, <4>1
          <5> QED
            BY <1>4, <1>5, <1>6, <3>2, <4>1, <5>1 DEF Resulted
        <4>2. CASE j = n + 1
          BY <2>4, <3>1, <3>2, <4>2
        <4> QED
          BY <2>2, <4>1, <4>2
      <3> QED
        BY <1>3, <1>5, <3>1, <3>2 DEF SavedAt
    <2> QED
      BY <2>1, <2>3, <2>4
  <1>12. Saved'
    BY <1>11 DEF Saved
  <1>13. ASSUME NEW d \in Clients, pages'[d].run \in {0, session'.run}, Wants(pages'[d])
         PROVE  Untold(pages[d])'
    <2>1. pages[d] \in PageRow /\ PageGood(pages[d]) /\ pages[d].next \in Nat
      BY GoodPages DEF Order
    <2>2. /\ Wants(pages[d]) /\ pages[d].run = pages'[d].run
          /\ Untold(pages[d]) => Untold(pages'[d])
          /\ pages'[d].strict <=> pages[d].strict
          /\ pages'[d].call = pages[d].call
      BY <1>7, <1>13, <2>1, IdlePage, StaysUntold DEF Goes
    <2>3. pages[d].run \in {0, session.run}
      BY <1>2, <1>13, <2>2
    <2>4. Untold(pages'[d]) /\ Untold(pages[d])
      BY <2>2, <2>3 DEF Order, PagesUntold
    <2>5. CASE pages'[d].strict
      <3>1. pages'[d].next \in Nat /\ pages'[d].next <= n
        BY <1>7, <2>4, <2>5 DEF Untold, PagesGood, PagesTyped, PageRow
      <3>2. pages'[d].next <= Len(transcript') /\ pages'[d].next # Len(transcript')
        BY <1>6, <3>1
      <3> QED
        BY <2>5, <3>2 DEF Untold
    <2>6. CASE ~pages'[d].strict
      <3>1. ASSUME r.role = "toolResult" PROVE r.call # pages[d].call
        <4>1. CASE ~r.heard
          BY <1>3, <2>2, <2>4, <2>6, <3>1, <4>1 DEF Untold
        <4>2. CASE r.heard
          <5>1. PICK c \in Clients : /\ r \in Outstanding(c) /\ PageTo(c, AfterMessage(pages[c], TRUE))
            BY <4>2 DEF AppendMessage, Answered
          <5>2. /\ pages[c].pc \in {"first", "say", "tell"} /\ r.role = RoleOf(pages[c])
                /\ r.run = pages[c].run /\ r.run # 0 /\ session.run = r.run
            BY <1>1, <5>1, RequestNumbers DEF Order, Heard, Awaits, Outstanding, Current
          <5>3. pages[c].pc = "tell"
            BY <3>1, <5>2, GoodPages DEF RoleOf, Order, PageGood
          <5>4. d # c
            <6>1. pages'[c] = AfterMessage(pages[c], TRUE)
              BY <5>1 DEF PageTo, Order, PagesGood, PagesTyped
            <6>2. ~Wants(pages'[c])
              BY <5>2, <5>3, <6>1, GoodPages, MessageGoes DEF Order
            <6> QED
              BY <1>13, <6>2
          <5>5. pages[d].run = 0
            BY <2>3, <5>2, <5>4 DEF Order, PagesGood
          <5> QED
            BY <2>1, <2>2, <2>6, <5>5 DEF PageGood, Wants
        <4> QED
          BY <4>1, <4>2 DEF RequestRow
      <3>2. PICK k : k = pages'[d].call
        OBVIOUS
      <3>3. ~Resulted(k)
        BY <2>4, <2>6, <3>2 DEF Untold
      <3>4. ~Resulted(k)'
        BY <1>10, <2>2, <3>1, <3>2, <3>3
      <3> QED
        BY <1>8, <2>6, <3>2, <3>4 DEF Untold, Resulted
    <2> QED
      BY <2>5, <2>6
  <1> QED
    BY <1>7, <1>9, <1>12, <1>13 DEF Order, PagesUntold
LEMMA Answers ==
    ASSUME RowsGood, RequestsGood, Order, NEW r \in requests, requests' = requests \ {r},
           NEW outcomes, Answered(r, outcomes),
           \A c \in Clients : r \in Outstanding(c) => \A q \in outcomes[c] : Goes(pages[c], q)
    PROVE  Turned
  <1>1. CASE UNCHANGED pages
    BY <1>1 DEF Turned
  <1>2. ASSUME NEW c \in Clients, r \in Outstanding(c), NEW q \in outcomes[c], PageTo(c, q)
        PROVE  Turned
    <2>1. Goes(pages[c], q)
      BY <1>2
    <2>2. \A s \in requests' : s.heard => s.run # pages[c].run
      BY <1>2 DEF Order, Heard, Outstanding
    <2> QED
      BY <1>2, <2>1, <2>2 DEF Turned
  <1> QED
    BY <1>1, <1>2 DEF Answered

LEMMA Waiting ==
    ASSUME RowsGood, RequestsGood, Order, NEW c \in Clients, NEW r \in Outstanding(c)
    PROVE  /\ pages[c] \in PageRow /\ PageGood(pages[c]) /\ pages[c].run # 0
           /\ Awaits(pages[c], r)
  BY GoodPages, RequestNumbers DEF Order, Heard, Outstanding

(* What a page says next has its place, and no result yet.                 *)
LEMMA SaysNext ==
    ASSUME RowsGood, Order, NEW c \in Clients, PostMessage(c), NEW r, Sent(c, r, "message"),
           r.role = RoleOf(pages[c]), Holds(pages[c].run), pages[c].next = Len(transcript)
    PROVE  Awaits(pages[c], r) /\ Current(r) /\ Fits(r)
  <1>1. pages[c].pc \in {"first", "say", "tell"} /\ PageGood(pages[c]) /\ pages[c] \in PageRow
    BY GoodPages DEF PostMessage, Ready, Order
  <1>2. Awaits(pages[c], r) /\ Current(r) /\ r.at = Len(transcript) /\ r.call = pages[c].call
    BY <1>1 DEF Awaits, Sent, Current, Holds
  <1>3. ASSUME r.role \in {"assistant", "toolResult"} PROVE ~Resulted(r.call)
    <2>1. CASE r.call = 0
      BY <2>1 DEF Order, Saved, SavedAt, Resulted
    <2>2. CASE r.call # 0
      <3>1. Wants(pages[c]) /\ pages[c].run = session.run
        BY <1>1, <1>2, <1>3, <2>2 DEF Wants, RoleOf, PageGood, Holds
      <3>2. Untold(pages[c])
        BY <3>1 DEF Order, PagesUntold
      <3> QED
        BY <1>2, <3>2 DEF Untold
    <2> QED
      BY <2>1, <2>2
  <1> QED
    BY <1>2, <1>3 DEF Fits

LEMMA OrderStays ==
    ASSUME RowsGood, RequestsGood, Order, Next PROVE RowsGood' /\ Order'
  <1>0. RowsGood' /\ Numbers'
    BY RowSteps, OtherRows DEF Order
  <1>p. \A c \in Clients : pages[c] \in PageRow /\ PageGood(pages[c])
    BY GoodPages DEF Order
  <1>1. CASE RowStep
    BY <1>0, <1>1, RowSteps, Settles DEF Order, Turned
  <1>2. ASSUME NEW c \in Clients, ClaimRead(c) PROVE Order'
    BY <1>2, ClaimReads
  <1>3. ASSUME NEW c \in Clients, ClaimWrite(c) PROVE Order'
    BY <1>0, <1>3, ClaimWrites
  <1>u. ASSUME NEW c \in Clients, UNCHANGED <<session, transcript, requests, runs, used>>,
               Outstanding(c) = {}, NEW q, Goes(pages[c], q), PageTo(c, q)
        PROVE  Order'
    <2>1. \A r \in requests' : r.heard => r.run # pages[c].run
      BY <1>u DEF Outstanding
    <2>2. Turned
      BY <1>u, <2>1 DEF Turned
    <2> QED
      BY <1>0, <1>u, <2>2, Settles
  <1>s. ASSUME UNCHANGED <<session, transcript, pages, requests, runs, used>> PROVE Order'
    BY <1>0, <1>s, Settles DEF Turned
  <1>4. ASSUME NEW c \in Clients, PostMessage(c) PROVE Order'
    <2>1. /\ UNCHANGED <<session, transcript, runs, used>> /\ Outstanding(c) = {}
          /\ pages[c].run # 0 /\ pages[c].pc \in {"first", "say", "tell"}
      BY <1>4 DEF PostMessage, Ready, counts
    <2>2. CASE requests' # requests
      <3>1. PICK r : /\ requests' = requests \cup {r} /\ UNCHANGED pages
                     /\ Sent(c, r, "message") /\ r.role = RoleOf(pages[c])
                     /\ Holds(pages[c].run) /\ pages[c].next = Len(transcript)
        BY <1>4, <2>2, PostsMessage DEF Order
      <3>2. Awaits(pages[c], r) /\ Current(r) /\ Fits(r)
        BY <1>4, <3>1, SaysNext
      <3> QED
        BY <2>1, <3>1, <3>2, Asks DEF Sent
    <2>3. CASE requests' = requests
      <3>1. UNCHANGED pages \/ PageTo(c, AfterMessage(pages[c], FALSE))
        BY <1>4 DEF PostMessage
      <3>2. Goes(pages[c], AfterMessage(pages[c], FALSE))
        BY <1>p, <2>1, MessageGoes
      <3> QED
        BY <1>s, <1>u, <2>1, <2>3, <3>1, <3>2
    <2> QED
      BY <2>2, <2>3
  <1>5. ASSUME NEW c \in Clients, Think(c) PROVE Order'
    <2>1. /\ UNCHANGED <<session, transcript, requests, runs>> /\ Outstanding(c) = {}
          /\ pages[c].run # 0 /\ pages[c].pc = "think"
      BY <1>5 DEF Think, Ready
    <2>2. CASE used' = used + 1
      BY <1>0, <1>5, <2>2, CallsNew
    <2>3. CASE used' = used /\ used' # used + 1
      <3> DEFINE p == [pages[c] EXCEPT !.pc = "say", !.call = 0, !.replay = FALSE]
                 e == [p EXCEPT !.failed = TRUE, !.pc = "end"]
      <3>1. PageTo(c, p) \/ PageTo(c, e)
        BY <1>5, <2>3 DEF Think
      <3>2. /\ p \in PageRow /\ p.pc = "say" /\ p.call = 0 /\ p.run = pages[c].run
            /\ p.next = pages[c].next /\ p.strict = pages[c].strict
        <4>1. 0 \in 0..MaxCalls
          BY Constants
        <4>2. PICK row \in PageRow : row = pages[c]
          BY <1>p
        <4>3. p = [row EXCEPT !.pc = "say", !.call = 0, !.replay = FALSE]
          BY <4>2
        <4> HIDE DEF p
        <4> QED
          BY <4>1, <4>2, <4>3 DEF PageRow
      <3> HIDE DEF p
      <3>3. /\ e \in PageRow /\ e.pc = "end" /\ e.call = 0 /\ e.run = pages[c].run
            /\ e.next = pages[c].next
        BY <3>2 DEF PageRow
      <3> HIDE DEF e
      <3>4. pages[c].next \in Nat /\ 0 <= used
        BY <1>p, Constants DEF PageRow, RowsGood
      <3>5. Goes(pages[c], p) /\ Goes(pages[c], e)
        BY <1>p, <2>1, <3>2, <3>3, <3>4 DEF Goes, PageGood, Wants
      <3> QED
        BY <1>u, <2>1, <2>3, <3>1, <3>5
    <2> QED
      BY <1>5, <2>2, <2>3 DEF Think
  <1>6. ASSUME NEW c \in Clients, RequestTool(c) PROVE Order'
    <2>1. /\ UNCHANGED <<session, transcript, runs, used>> /\ Outstanding(c) = {}
          /\ pages[c].run # 0 /\ pages[c].pc = "call"
      BY <1>6 DEF RequestTool, Ready, counts
    <2>2. CASE requests' # requests
      <3>1. requests' = requests \cup {ToolRequest(c)} /\ UNCHANGED pages
        BY <1>6, <2>2 DEF RequestTool, ToolRequest
      <3>2. Sent(c, ToolRequest(c), "tool")
        BY <2>1, NewRequest DEF Order
      <3>3. Awaits(pages[c], ToolRequest(c))
        BY <2>1, <3>2 DEF Awaits, Sent
      <3> QED
        BY <2>1, <3>1, <3>2, <3>3, Asks DEF Sent
    <2>3. CASE requests' = requests
      <3>1. UNCHANGED pages \/ \E ok \in BOOLEAN : \E q \in AfterTool(pages[c], ok) : PageTo(c, q)
        BY <1>6 DEF RequestTool, Holds
      <3>2. ASSUME NEW ok \in BOOLEAN, NEW q \in AfterTool(pages[c], ok) PROVE Goes(pages[c], q)
        BY <1>p, <2>1, ToolGoes
      <3> QED
        BY <1>s, <1>u, <2>1, <2>3, <3>1, <3>2
    <2> QED
      BY <2>2, <2>3
  <1>7. ASSUME NEW c \in Clients, PostComplete(c) PROVE Order'
    <2>1. /\ UNCHANGED <<session, transcript, runs, used>> /\ Outstanding(c) = {}
          /\ pages[c].run # 0 /\ pages[c].pc = "end"
      BY <1>7 DEF PostComplete, Ready, counts
    <2>2. CASE requests' # requests
      <3> DEFINE r == CompleteRequest(c, StatusAfter(pages[c]))
      <3>1. requests' = requests \cup {r} /\ UNCHANGED pages
        BY <1>7, <2>2 DEF PostComplete, CompleteRequest
      <3>2. Sent(c, r, "complete")
        BY <2>1, NewRequest, StatusIsEnd DEF Order
      <3> HIDE DEF r
      <3>3. Awaits(pages[c], r)
        BY <2>1, <3>2 DEF Awaits, Sent
      <3> QED
        BY <2>1, <3>1, <3>2, <3>3, Asks DEF Sent
    <2>3. CASE requests' = requests
      <3>1. UNCHANGED pages \/ PageTo(c, Idle)
        BY <1>7 DEF PostComplete
      <3> QED
        BY <1>s, <1>u, <2>1, <2>3, <3>1, IdleGoes
    <2> QED
      BY <2>2, <2>3
  <1>8. ASSUME NEW r \in requests, AppendMessage(r) PROVE Order'
    <2>1. /\ requests' = requests \ {r} /\ UNCHANGED <<runs, used>> /\ r.kind = "message"
          /\ Answered(r, [c \in Clients |-> {AfterMessage(pages[c], TRUE)}])
      BY <1>8 DEF AppendMessage, counts
    <2>2. ASSUME NEW c \in Clients, r \in Outstanding(c), NEW q \in {AfterMessage(pages[c], TRUE)}
          PROVE  Goes(pages[c], q)
      BY <2>1, <2>2, Waiting, MessageGoes DEF Awaits
    <2>3. Turned
      <3>1. PICK outcomes : outcomes = [c \in Clients |-> {AfterMessage(pages[c], TRUE)}]
        OBVIOUS
      <3>2. \A c \in Clients : r \in Outstanding(c) => \A q \in outcomes[c] : Goes(pages[c], q)
        BY <2>2, <3>1
      <3> QED
        BY <2>1, <3>1, <3>2, Answers
    <2>4. CASE ~Current(r)
      BY <1>0, <1>8, <2>1, <2>3, <2>4, Settles DEF AppendMessage
    <2> QED
      BY <1>0, <1>8, <2>3, <2>4, Saves
  <1>9. ASSUME NEW r \in requests, Execute(r) PROVE Order'
    <2>1. r \in RequestRow /\ r.kind = "tool" /\ UNCHANGED <<transcript, pages, runs, used>>
      BY <1>9 DEF Execute, RequestsGood, RequestGood, counts
    <2>2. session'.run = session.run
      <3>1. session' = session \/ \E k : session' = [Touched EXCEPT !.waiting = k]
        BY <1>9 DEF Execute
      <3> QED
        BY <3>1 DEF Touched, RowsGood, SessionRow
    <2>3. PICK ok \in BOOLEAN : requests' = (requests \ {r}) \cup {[r EXCEPT !.step = "store", !.ok = ok]}
      <3>1. PICK works \in BOOLEAN :
              requests' = (requests \ {r}) \cup {[r EXCEPT !.step = "store", !.ok = works /\ Current(r)]}
        BY <1>9 DEF Execute
      <3>2. (works /\ Current(r)) \in BOOLEAN
        BY DEF Current
      <3> QED
        BY <3>1, <3>2
    <2>4. PICK q : q = [r EXCEPT !.step = "store", !.ok = ok]
      OBVIOUS
    <2>5. q.kind = r.kind /\ q.run = r.run /\ q.heard = r.heard
      BY <2>1, <2>4, DesktopRequestStep
    <2> QED
      BY <1>0, <2>1, <2>2, <2>3, <2>4, <2>5, Works
  <1>10. ASSUME NEW r \in requests, StoreResult(r) PROVE Order'
    <2>1. /\ requests' = requests \ {r} /\ UNCHANGED <<session, transcript, runs, used>>
          /\ Answered(r, [c \in Clients |-> AfterTool(pages[c], r.ok)])
          /\ r.kind = "tool" /\ r.ok \in BOOLEAN
      BY <1>10 DEF StoreResult, counts, RequestsGood, RequestGood, RequestRow
    <2>2. ASSUME NEW c \in Clients, r \in Outstanding(c), NEW q \in AfterTool(pages[c], r.ok)
          PROVE  Goes(pages[c], q)
      BY <2>1, <2>2, Waiting, ToolGoes DEF Awaits
    <2>3. Turned
      BY <2>1, <2>2, Answers
    <2> QED
      BY <1>0, <2>1, <2>3, Settles
  <1>11. ASSUME NEW r \in requests, CompleteTurn(r) PROVE Order'
    <2>1. /\ requests' = requests \ {r} /\ UNCHANGED <<transcript, runs, used>>
          /\ Answered(r, [c \in Clients |-> {Idle}])
      BY <1>11 DEF CompleteTurn, counts
    <2>2. Turned
      BY <2>1, Answers, IdleGoes
    <2>3. session'.run \in {session.run, 0}
      <3>1. Released(session) \in SessionRow /\ Released(session).run = 0
        BY ReleasedRow DEF RowsGood
      <3>2. session' = session \/ session' = [Released(session) EXCEPT !.status = r.status]
        BY <1>11 DEF CompleteTurn
      <3> QED
        BY <3>1, <3>2 DEF SessionRow
    <2> QED
      BY <1>0, <2>1, <2>2, <2>3, Settles
  <1>12. ASSUME NEW r \in requests, ServerFails(r) PROVE Order'
    <2>1. /\ requests' = requests \ {r} /\ UNCHANGED <<session, transcript, runs, used>>
          /\ Answered(r, [c \in Clients |-> AfterError(pages[c])])
      BY <1>12 DEF ServerFails, counts
    <2>2. ASSUME NEW c \in Clients, r \in Outstanding(c), NEW q \in AfterError(pages[c])
          PROVE  Goes(pages[c], q)
      BY <2>2, Waiting, ErrorGoes
    <2>3. Turned
      BY <2>1, <2>2, Answers
    <2> QED
      BY <1>0, <2>1, <2>3, Settles
  <1>13. ASSUME NEW c \in Clients, Reload(c) PROVE Order'
    <2>1. /\ PageTo(c, Idle) /\ requests' = Unheard(c)
          /\ UNCHANGED <<session, transcript, runs, used>>
      BY <1>13 DEF Reload, counts
    <2> QED
      BY <2>1, IdleGoes, GivesUp
  <1>14. ASSUME NEW c \in Clients, NetworkFails(c) PROVE Order'
    <2>1. PICK q : /\ PageTo(c, q) /\ requests' = Unheard(c)
                   /\ q = Idle \/ (pages[c].run # 0 /\ q \in AfterError(pages[c]))
                   /\ UNCHANGED <<session, transcript, runs, used>>
      BY <1>14 DEF NetworkFails, counts
    <2>2. CASE q = Idle
      BY <2>1, <2>2, IdleGoes, GivesUp
    <2>3. CASE q # Idle
      <3>1. /\ Goes(pages[c], q)
            /\ pages[c].pc \in {"first", "say", "tell"} =>
                  q = Idle \/ (q.next > pages[c].next /\ (Wants(q) => pages[c].pc = "say"))
        BY <1>p, <2>1, <2>3, ErrorGoes
      <3> QED
        BY <2>1, <3>1, GivesUp
    <2> QED
      BY <2>2, <2>3
  <1> QED
    BY <1>0, <1>1, <1>2, <1>3, <1>4, <1>5, <1>6, <1>7, <1>8, <1>9, <1>10, <1>11, <1>12, <1>13, <1>14
    DEF Next, RowStep, MemberStep, ServerStep, PageStep, Environment, Expiry
-----------------------------------------------------------------------------
(* Effects. *)
LEMMA ToolNumbers ==
    ASSUME NEW S, IsFiniteSet(S), NEW T, T \subseteq S, NEW U, U \subseteq T
    PROVE  /\ IsFiniteSet(T) /\ IsFiniteSet(U) /\ Cardinality(U) \in Nat
           /\ T = {} => Cardinality(U) = 0
  <1>1. T = {} => U = {}
    OBVIOUS
  <1>2. IsFiniteSet(T) /\ IsFiniteSet(U)
    BY FS_Subset
  <1> QED
    BY <1>1, <1>2, FS_CardinalityType, FS_EmptySet

LEMMA EffectNumbers ==
    ASSUME RowsGood, RowsGood', RequestsGood, RequestsGood', NEW k \in Calls
    PROVE  /\ calls[k].ran \in Nat /\ calls[k].cut \in Nat
           /\ calls'[k].ran \in Nat /\ calls'[k].cut \in Nat
           /\ calls[k].state \in {None, "running", "complete", "failed"}
           /\ calls[k].live \in BOOLEAN
           /\ IsFiniteSet(Starting(k)) /\ Cardinality(Starting(k)) \in Nat
           /\ IsFiniteSet(Starting(k)') /\ Cardinality(Starting(k)') \in Nat
           /\ Tools(k) = {} => Cardinality(Starting(k)) = 0
           /\ Tools(k)' = {} => Cardinality(Starting(k)') = 0
  <1>1. \A row \in CallRow : /\ row.ran \in Nat /\ row.cut \in Nat /\ row.live \in BOOLEAN
                             /\ row.state \in {None, "running", "complete", "failed"}
    BY DEF CallRow
  <1>2. calls[k] \in CallRow /\ calls'[k] \in CallRow
    BY DEF RowsGood
  <1>3. /\ IsFiniteSet(Starting(k)) /\ Cardinality(Starting(k)) \in Nat
        /\ Tools(k) = {} => Cardinality(Starting(k)) = 0
    <2>1. IsFiniteSet(requests) /\ Tools(k) \subseteq requests /\ Starting(k) \subseteq Tools(k)
      BY DEF RequestsGood, Tools, Starting
    <2> QED
      BY <2>1, ToolNumbers
  <1>4. /\ IsFiniteSet(Starting(k)') /\ Cardinality(Starting(k)') \in Nat
        /\ Tools(k)' = {} => Cardinality(Starting(k)') = 0
    <2>1. IsFiniteSet(requests') /\ Tools(k)' \subseteq requests' /\ Starting(k)' \subseteq Tools(k)'
      BY DEF RequestsGood, Tools, Starting
    <2> QED
      BY <2>1, ToolNumbers
  <1> QED
    BY <1>1, <1>2, <1>3, <1>4

(* What a step must do about a call: spend nothing more on it, and keep it *)
(* in the hands of a request as long as it is executed.                    *)
LEMMA EffectStays ==
    ASSUME RowsGood, RowsGood', RequestsGood, RequestsGood', NEW k \in Calls, Effect(k),
           calls'[k].ran = calls[k].ran, calls'[k].cut = calls[k].cut,
           calls'[k].state = calls[k].state, calls'[k].live = calls[k].live,
           Cardinality(Starting(k)') <= Cardinality(Starting(k)),
           Tools(k)' = {} <=> Tools(k) = {}
    PROVE  Effect(k)'
  BY EffectNumbers DEF Effect

LEMMA SameTools ==
    ASSUME RowsGood, RowsGood', RequestsGood, RequestsGood', NEW k \in Calls, Effect(k),
           calls'[k].ran = calls[k].ran, calls'[k].cut = calls[k].cut,
           calls'[k].state = calls[k].state, calls'[k].live = calls[k].live,
           \A r : r.kind = "tool" /\ r.call = k => (r \in requests' <=> r \in requests)
    PROVE  Effect(k)'
  <1>1. Tools(k)' = Tools(k)
    BY DEF Tools
  <1>2. Starting(k)' = Starting(k)
    BY <1>1 DEF Starting
  <1>3. Cardinality(Starting(k)') <= Cardinality(Starting(k))
    BY <1>2, EffectNumbers
  <1> QED
    BY <1>1, <1>3, EffectStays

LEMMA RequestsTool ==
    ASSUME RowsGood, RowsGood', RequestsGood, RequestsGood', Order, Effects,
           NEW c \in Clients, RequestTool(c), requests' # requests
    PROVE  Effects'
  <1>k. PICK k : k = pages[c].call
    OBVIOUS
  <1>r. PICK r : r = ToolRequest(c)
    OBVIOUS
  <1>1. /\ pages[c].pc = "call" /\ k # 0 /\ k \in 0..MaxCalls /\ pages[c].run # 0
    BY <1>k, GoodPages DEF RequestTool, Ready, Order, PageGood, PageRow
  <1>2. k \in Calls
    BY <1>1, Constants DEF Calls
  <1>3. /\ calls[k].state \notin {"complete", "failed"} /\ ~Executing(k)
        /\ calls' = [calls EXCEPT ![k].state = "running", ![k].live = TRUE]
        /\ requests' = requests \cup {r}
    BY <1>k, <1>r DEF RequestTool, ToolRequest
  <1>4. r.kind = "tool" /\ r.call = k /\ r.step = "execute"
    BY <1>1, <1>k, <1>r, NewRequest DEF Order, Sent
  <1>5. /\ \A j \in Calls : /\ calls'[j].ran = calls[j].ran /\ calls'[j].cut = calls[j].cut
                            /\ j # k => calls'[j] = calls[j]
        /\ calls'[k].state = "running" /\ calls'[k].live = TRUE
    <2> DEFINE f == [calls EXCEPT ![k].state = "running", ![k].live = TRUE]
    <2>1. /\ \A j \in Calls : /\ f[j].ran = calls[j].ran /\ f[j].cut = calls[j].cut
                              /\ j # k => f[j] = calls[j]
          /\ f[k].state = "running" /\ f[k].live = TRUE
      BY <1>2, CallRows
    <2> HIDE DEF f
    <2>2. calls' = f
      BY <1>3 DEF f
    <2> QED
      BY <2>1, <2>2
  <1>6. Effect(k)'
    <2>1. /\ calls[k].ran \in Nat /\ calls[k].cut \in Nat
          /\ calls[k].state \in {None, "running", "complete", "failed"}
          /\ IsFiniteSet(Starting(k)) /\ Cardinality(Starting(k)) \in Nat
          /\ Tools(k) = {} => Cardinality(Starting(k)) = 0
      BY <1>2, EffectNumbers
    <2>2. Tools(k)' # {} /\ Starting(k)' = Starting(k) \cup {r}
      BY <1>3, <1>4 DEF Tools, Starting
    <2>3. /\ Cardinality(Starting(k)') \in Nat
          /\ Cardinality(Starting(k)') <= Cardinality(Starting(k)) + 1
      <3>1. Cardinality(Starting(k) \cup {r}) \in {Cardinality(Starting(k)), Cardinality(Starting(k)) + 1}
        BY <2>1, FS_AddElement
      <3> QED
        BY <2>1, <2>2, <3>1
    <2>4. calls[k].ran + Cardinality(Starting(k)) <= calls[k].cut
      <3>1. CASE calls[k].state = "running"
        BY <1>2, <1>3, <3>1 DEF Effects, Effect, Executing
      <3>2. CASE calls[k].state = None
        BY <1>2, <2>1, <3>2 DEF Effects, Effect
      <3> QED
        BY <1>3, <2>1, <3>1, <3>2
    <2> QED
      BY <1>2, <1>5, <2>1, <2>2, <2>3, <2>4, Constants DEF Effect
  <1>7. ASSUME NEW j \in Calls, j # k PROVE Effect(j)'
    BY <1>3, <1>4, <1>5, <1>7, SameTools DEF Effects
  <1> QED
    BY <1>6, <1>7 DEF Effects

LEMMA Executes ==
    ASSUME RowsGood, RowsGood', RequestsGood, RequestsGood', Effects, NEW r \in requests, Execute(r)
    PROVE  Effects'
  <1> DEFINE k == r.call
  <1>1. PICK q : /\ requests' = (requests \ {r}) \cup {q} /\ q.kind = r.kind /\ q.call = r.call
                 /\ q.step = "store"
    <2>1. PICK works \in BOOLEAN :
            requests' = (requests \ {r}) \cup {[r EXCEPT !.step = "store", !.ok = works /\ Current(r)]}
      BY DEF Execute
    <2>2. (works /\ Current(r)) \in BOOLEAN /\ r \in RequestRow
      BY DEF Current, RequestsGood, RequestGood
    <2> QED
      BY <2>1, <2>2, DesktopRequestStep
  <1>2. r.kind = "tool" /\ r.step = "execute"
    BY DEF Execute, RequestsGood, RequestGood
  <1>3. \A j \in Calls : /\ calls'[j].cut = calls[j].cut /\ calls'[j].state = calls[j].state
                         /\ calls'[j].live = calls[j].live
                         /\ calls'[j].ran = IF j = k THEN calls[j].ran + 1 ELSE calls[j].ran
    BY CallRuns DEF Execute
  <1>4. ASSUME NEW j \in Calls, j # k PROVE Effect(j)'
    BY <1>1, <1>3, <1>4, SameTools DEF Effects
  <1>5. ASSUME k \in Calls PROVE Effect(k)'
    <2>1. /\ calls[k].ran \in Nat /\ calls[k].cut \in Nat
          /\ IsFiniteSet(Starting(k)) /\ Cardinality(Starting(k)) \in Nat
      BY <1>5, EffectNumbers
    <2>2. r \in Starting(k) /\ Tools(k) # {} /\ Tools(k)' # {} /\ Starting(k)' = Starting(k) \ {r}
      BY <1>1, <1>2 DEF Tools, Starting
    <2>3. /\ Cardinality(Starting(k)') = Cardinality(Starting(k)) - 1
      BY <2>1, <2>2, FS_RemoveElement
    <2> HIDE DEF k
    <2>4. calls'[k].ran + Cardinality(Starting(k)') = calls[k].ran + Cardinality(Starting(k))
      BY <1>3, <1>5, <2>1, <2>3
    <2> QED
      BY <1>3, <1>5, <2>2, <2>4 DEF Effects, Effect
  <1> QED
    BY <1>4, <1>5 DEF Effects

LEMMA CallEnds ==
    ASSUME RowsGood, NEW k, NEW st \in {"running", "complete", "failed"},
           calls' = [calls EXCEPT ![k].state = st, ![k].live = FALSE]
    PROVE  /\ \A j \in Calls : /\ calls'[j].ran = calls[j].ran /\ calls'[j].cut = calls[j].cut
                               /\ j # k => calls'[j] = calls[j]
           /\ k \in Calls => calls'[k].state = st
  <1>1. calls \in [Calls -> CallRow]
    BY DEF RowsGood
  <1>2. ASSUME NEW j \in Calls, j # k PROVE calls'[j] = calls[j]
    BY <1>1, <1>2
  <1>3. ASSUME k \in Calls
        PROVE  /\ calls'[k].ran = calls[k].ran /\ calls'[k].cut = calls[k].cut
               /\ calls'[k].state = st
    <2>1. PICK row \in CallRow : row = calls[k]
      BY <1>1, <1>3
    <2>2. PICK end : end = [row EXCEPT !.state = st, !.live = FALSE]
      OBVIOUS
    <2>3. calls'[k] = end
      BY <1>1, <1>3, <2>1, <2>2
    <2>4. end.ran = row.ran /\ end.cut = row.cut /\ end.state = st
      BY <2>1, <2>2 DEF CallRow
    <2> QED
      BY <2>1, <2>3, <2>4
  <1> QED
    BY <1>2, <1>3

LEMMA StoresResult ==
    ASSUME RowsGood, RowsGood', RequestsGood, RequestsGood', Effects, NEW r \in requests, StoreResult(r)
    PROVE  Effects'
  <1>k. PICK k : k = r.call
    OBVIOUS
  <1>s. PICK st \in {"running", "complete", "failed"} : st = IF r.ok THEN "complete" ELSE "failed"
    OBVIOUS
  <1>1. /\ requests' = requests \ {r} /\ r.kind = "tool" /\ st \in {"complete", "failed"}
        /\ calls' = [calls EXCEPT ![k].state = st, ![k].live = FALSE]
    BY <1>k, <1>s DEF StoreResult, RequestsGood, RequestGood
  <1>2. /\ \A j \in Calls : /\ calls'[j].ran = calls[j].ran /\ calls'[j].cut = calls[j].cut
                            /\ j # k => calls'[j] = calls[j]
        /\ k \in Calls => calls'[k].state = st
    BY <1>1, <1>s, CallEnds
  <1>3. ASSUME NEW j \in Calls, j # k PROVE Effect(j)'
    BY <1>1, <1>2, <1>3, SameTools, <1>k DEF Effects
  <1>4. ASSUME k \in Calls PROVE Effect(k)'
    <2>1. /\ calls[k].ran \in Nat /\ calls[k].cut \in Nat
          /\ IsFiniteSet(Starting(k)) /\ Cardinality(Starting(k)) \in Nat
          /\ Cardinality(Starting(k)') \in Nat
      BY <1>4, EffectNumbers
    <2>2. Starting(k)' \subseteq Starting(k)
      BY <1>1 DEF Tools, Starting
    <2>3. Cardinality(Starting(k)') <= Cardinality(Starting(k))
      BY <2>1, <2>2, FS_Subset
    <2>4. calls[k].ran + Cardinality(Starting(k)) <= 1 + calls[k].cut
      BY <1>4 DEF Effects, Effect
    <2>5. calls'[k].state \notin {"running", None}
      BY <1>1, <1>2, <1>4, Constants
    <2> QED
      BY <1>2, <1>4, <2>1, <2>3, <2>4, <2>5 DEF Effect
  <1> QED
    BY <1>3, <1>4 DEF Effects

(* The execution of a call is cut off: it may be repeated once more.       *)
LEMMA CutsOff ==
    ASSUME RowsGood, RowsGood', RequestsGood, RequestsGood', Effects, NEW r \in requests,
           ServerFails(r), r.kind = "tool"
    PROVE  Effects'
  <1> DEFINE k == r.call
  <1>1. requests' = requests \ {r} /\ calls' = [calls EXCEPT ![k].cut = @ + 1]
    BY DEF ServerFails
  <1>2. \A j \in Calls : /\ calls'[j].ran = calls[j].ran /\ calls'[j].state = calls[j].state
                         /\ calls'[j].live = calls[j].live
                         /\ calls'[j].cut = IF j = k THEN calls[j].cut + 1 ELSE calls[j].cut
    BY <1>1, CallCut
  <1>3. ASSUME NEW j \in Calls, j # k PROVE Effect(j)'
    BY <1>1, <1>2, <1>3, SameTools DEF Effects
  <1>4. ASSUME k \in Calls PROVE Effect(k)'
    <2>1. /\ calls[k].ran \in Nat /\ calls[k].cut \in Nat
          /\ IsFiniteSet(Starting(k)) /\ Cardinality(Starting(k)) \in Nat
          /\ Cardinality(Starting(k)') \in Nat
      BY <1>4, EffectNumbers
    <2>2. Starting(k)' \subseteq Starting(k) /\ Tools(k) # {}
      BY <1>1 DEF Tools, Starting
    <2>3. Cardinality(Starting(k)') <= Cardinality(Starting(k))
      BY <2>1, <2>2, FS_Subset
    <2> HIDE DEF k
    <2>4. /\ calls'[k].ran = calls[k].ran /\ calls'[k].state = calls[k].state
          /\ calls'[k].live = calls[k].live /\ calls'[k].cut = calls[k].cut + 1
      BY <1>2, <1>4
    <2> QED
      BY <1>4, <2>1, <2>2, <2>3, <2>4 DEF Effects, Effect
  <1> QED
    BY <1>3, <1>4 DEF Effects

LEMMA Lapses ==
    ASSUME RowsGood, RowsGood', RequestsGood, RequestsGood', Effects, NEW k \in Calls,
           CallLeaseExpires(k) \/ Stall(k)
    PROVE  Effects'
  <1>1. UNCHANGED requests /\ calls[k].state = "running"
    BY DEF CallLeaseExpires, Stall, Executing
  <1>2. /\ \A j \in Calls : /\ calls'[j].ran = calls[j].ran /\ calls'[j].state = calls[j].state
                            /\ j # k => calls'[j].live = calls[j].live /\ calls'[j].cut = calls[j].cut
        /\ CallLeaseExpires(k) => calls'[k].cut = calls[k].cut
        /\ Stall(k) => calls'[k].cut = calls[k].cut + 1
    <2> DEFINE f == [calls EXCEPT ![k].live = FALSE]
               g == [calls EXCEPT ![k].live = FALSE, ![k].cut = @ + 1]
    <2>1. \A j \in Calls : /\ f[j].ran = calls[j].ran /\ f[j].state = calls[j].state
                           /\ f[j].cut = calls[j].cut
                           /\ j # k => f[j].live = calls[j].live
      BY CallLapses
    <2>2. \A j \in Calls : /\ g[j].ran = calls[j].ran /\ g[j].state = calls[j].state
                           /\ j # k => g[j].live = calls[j].live
                           /\ g[j].cut = IF j = k THEN calls[j].cut + 1 ELSE calls[j].cut
      BY CallStalls
    <2> HIDE DEF f, g
    <2>3. (CallLeaseExpires(k) => calls' = f) /\ (Stall(k) => calls' = g)
      BY DEF f, g, CallLeaseExpires, Stall
    <2>4. ~(CallLeaseExpires(k) /\ Stall(k))
      BY DEF CallLeaseExpires, Stall
    <2> QED
      BY <2>1, <2>2, <2>3, <2>4
  <1>3. ASSUME NEW j \in Calls, j # k PROVE Effect(j)'
    BY <1>1, <1>2, <1>3, SameTools DEF Effects
  <1>4. Effect(k)'
    <2>1. /\ calls[k].ran \in Nat /\ calls[k].cut \in Nat
          /\ Cardinality(Starting(k)) \in Nat
          /\ Tools(k) = {} => Cardinality(Starting(k)) = 0
      BY EffectNumbers
    <2>2. Starting(k)' = Starting(k) /\ Tools(k)' = Tools(k)
      BY <1>1 DEF Tools, Starting
    <2>3. CallLeaseExpires(k) => Tools(k) = {}
      BY DEF CallLeaseExpires, Tools
    <2>4. /\ calls'[k].ran = calls[k].ran /\ calls'[k].state = calls[k].state
          /\ calls[k].ran + Cardinality(Starting(k)) <= calls'[k].cut
          /\ calls[k].cut <= calls'[k].cut /\ calls'[k].cut \in Nat
      BY <1>1, <1>2, <2>1, <2>3 DEF Effects, Effect
    <2> QED
      BY <1>1, <2>1, <2>2, <2>4, Constants DEF Effect
  <1> QED
    BY <1>3, <1>4 DEF Effects

LEMMA Deafens ==
    ASSUME RowsGood, RowsGood', RequestsGood, RequestsGood', Effects, NEW c,
           requests' = Unheard(c), UNCHANGED calls
    PROVE  Effects'
  <1>1. /\ requests' = {Deaf(c, r) : r \in requests}
        /\ \A r \in requests : LET q == Deaf(c, r) IN
              q.step = r.step /\ q.kind = r.kind /\ q.call = r.call
    BY UnheardImage
  <1>2. ASSUME NEW k \in Calls PROVE Effect(k)'
    <2> DEFINE f == [r \in Starting(k) |-> Deaf(c, r)]
    <2>1. f \in Surjection(Starting(k), Starting(k)')
      <3>1. \A r \in Starting(k) : Deaf(c, r) \in Starting(k)'
        BY <1>1 DEF Starting, Tools
      <3>2. \A q \in Starting(k)' : \E r \in Starting(k) : q = Deaf(c, r)
        BY <1>1 DEF Starting, Tools
      <3> QED
        BY <3>1, <3>2 DEF Surjection
    <2> HIDE DEF f
    <2>2. Cardinality(Starting(k)') <= Cardinality(Starting(k))
      BY <2>1, EffectNumbers, FS_Surjection
    <2>3. Tools(k)' = {} <=> Tools(k) = {}
      BY <1>1 DEF Tools
    <2> QED
      BY <2>2, <2>3, EffectStays DEF Effects
  <1> QED
    BY <1>2 DEF Effects

LEMMA EffectsStay ==
    ASSUME RowsGood, RowsGood', RequestsGood, RequestsGood', Order, Effects, Next
    PROVE  Effects'
  <1>1. ASSUME UNCHANGED calls,
               \A r : r.kind = "tool" => (r \in requests' <=> r \in requests)
        PROVE  Effects'
    BY <1>1, SameTools DEF Effects
  <1>2. ASSUME UNCHANGED <<calls, requests>> PROVE Effects'
    BY <1>1, <1>2
  <1>3. CASE MemberStep \/ ScheduleSessionTurn \/ LeaseExpires \/ Sleep \/ SchedulingFails
    <2>1. UNCHANGED <<calls, requests>>
      BY <1>3 DEF MemberStep, Schedule, SendMessage, AnswerQuestion, Wake, CancelSession,
                  ScheduleSessionTurn, LeaseExpires, Sleep, SchedulingFails
    <2> QED
      BY <1>2, <2>1
  <1>4. ASSUME NEW k \in Calls, CallLeaseExpires(k) \/ Stall(k) PROVE Effects'
    BY <1>4, Lapses
  <1>5. ASSUME NEW c \in Clients, ClaimRead(c) \/ ClaimWrite(c) PROVE Effects'
    BY <1>2, <1>5 DEF ClaimRead, ClaimWrite
  <1>6. ASSUME NEW c \in Clients, PostMessage(c) PROVE Effects'
    <2>1. CASE requests' = requests
      BY <1>2, <1>6, <2>1 DEF PostMessage
    <2>2. CASE requests' # requests
      <3>1. PICK r : requests' = requests \cup {r} /\ r.kind = "message"
        BY <1>6, <2>2, PostsMessage DEF Order, Sent
      <3>2. UNCHANGED calls
        BY <1>6 DEF PostMessage
      <3> QED
        BY <1>1, <3>1, <3>2
    <2> QED
      BY <2>1, <2>2
  <1>7. ASSUME NEW c \in Clients, PostComplete(c) PROVE Effects'
    <2>1. CASE requests' = requests
      BY <1>2, <1>7, <2>1 DEF PostComplete
    <2>2. CASE requests' # requests
      <3>1. requests' = requests \cup {CompleteRequest(c, StatusAfter(pages[c]))} /\ pages[c].run # 0
        BY <1>7, <2>2 DEF PostComplete, CompleteRequest, Ready
      <3>2. CompleteRequest(c, StatusAfter(pages[c])).kind = "complete"
        BY <3>1, NewRequest, StatusIsEnd DEF Order, Sent
      <3>3. UNCHANGED calls
        BY <1>7 DEF PostComplete
      <3> QED
        BY <1>1, <3>1, <3>2, <3>3
    <2> QED
      BY <2>1, <2>2
  <1>8. ASSUME NEW c \in Clients, Think(c) PROVE Effects'
    <2>1. UNCHANGED requests
      BY <1>8 DEF Think
    <2>2. CASE UNCHANGED calls
      BY <1>2, <2>1, <2>2
    <2>3. ASSUME NEW kind, calls' = [calls EXCEPT ![used + 1].kind = kind, ![used + 1].turn = turns]
          PROVE  Effects'
      <3>1. \A k \in Calls : /\ calls'[k].ran = calls[k].ran /\ calls'[k].cut = calls[k].cut
                             /\ calls'[k].state = calls[k].state /\ calls'[k].live = calls[k].live
        BY <2>3, SMTT(20) DEF RowsGood, CallRow
      <3> QED
        BY <2>1, <3>1, SameTools DEF Effects
    <2> QED
      BY <1>8, <2>2, <2>3 DEF Think
  <1>9. ASSUME NEW c \in Clients, RequestTool(c) PROVE Effects'
    <2>1. CASE requests' = requests
      <3>1. CASE UNCHANGED calls
        BY <1>2, <2>1, <3>1
      <3>2. CASE requests' = requests \cup {ToolRequest(c)}
        <4>1. /\ ToolRequest(c).heard /\ ToolRequest(c).run = pages[c].run
              /\ Outstanding(c) = {}
          BY <1>9, NewRequest DEF RequestTool, Ready, Order, Sent
        <4> QED
          BY <2>1, <3>2, <4>1 DEF Outstanding
      <3> QED
        BY <1>9, <3>1, <3>2 DEF RequestTool, ToolRequest
    <2> QED
      BY <1>9, <2>1, RequestsTool
  <1>10. ASSUME NEW r \in requests, AppendMessage(r) \/ CompleteTurn(r) PROVE Effects'
    BY <1>1, <1>10 DEF AppendMessage, CompleteTurn
  <1>11. ASSUME NEW r \in requests, Execute(r) PROVE Effects'
    BY <1>11, Executes
  <1>12. ASSUME NEW r \in requests, StoreResult(r) PROVE Effects'
    BY <1>12, StoresResult
  <1>13. ASSUME NEW r \in requests, ServerFails(r) PROVE Effects'
    <2>1. CASE r.kind = "tool"
      BY <1>13, <2>1, CutsOff
    <2>2. CASE r.kind # "tool"
      BY <1>1, <1>13, <2>2 DEF ServerFails
    <2> QED
      BY <2>1, <2>2
  <1>14. ASSUME NEW c \in Clients, Reload(c) \/ NetworkFails(c) PROVE Effects'
    BY <1>14, Deafens DEF Reload, NetworkFails
  <1> QED
    BY <1>3, <1>4, <1>5, <1>6, <1>7, <1>8, <1>9, <1>10, <1>11, <1>12, <1>13, <1>14
    DEF Next, ServerStep, PageStep, Environment, Expiry

-----------------------------------------------------------------------------
(* Theorems. *)
LEMMA Steps == IInv /\ [Next]_vars => IInv'
  <1> SUFFICES ASSUME IInv, [Next]_vars PROVE IInv'
    OBVIOUS
  <1>1. CASE Next
    <2>1. RowsGood' /\ Order'
      BY <1>1, OrderStays DEF IInv
    <2>2. RequestsGood'
      BY <1>1, RequestsStay DEF IInv, Order
    <2>3. Effects'
      BY <1>1, <2>1, <2>2, EffectsStay DEF IInv
    <2> QED
      BY <2>1, <2>2, <2>3 DEF IInv
  <1>2. CASE UNCHANGED vars
    <2>1. RowsGood' /\ RequestsGood'
      BY <1>2 DEF IInv, vars, RowsGood, RequestsGood, RequestGood
    <2>2. PagesGood' /\ Heard' /\ Passed'
      BY <1>2 DEF IInv, vars, Order, PagesGood, PagesTyped, PageGood, Heard, Outstanding, Awaits,
                  Passed, Messages
    <2>3. InFlight' /\ Saved' /\ Numbers'
      BY <1>2 DEF IInv, vars, Order, InFlight, Messages, Current, Fits, Resulted, Saved, SavedAt, Numbers
    <2>4. PagesUntold'
      BY <1>2 DEF IInv, vars, Order, PagesUntold, Untold, Wants, Messages, Current, Resulted
    <2>5. Effects'
      BY <1>2 DEF IInv, vars, Effects, Effect, Tools, Starting
    <2> QED
      BY <2>1, <2>2, <2>3, <2>4, <2>5 DEF IInv, Order
  <1> QED
    BY <1>1, <1>2

LEMMA Invariant == Spec => []IInv
  BY Initial, Steps, PTL DEF Spec

(* Types of the session, its transcript, its tool calls and the pages; a   *)
(* request is always of a claim that was made.                             *)
THEOREM TypeCorrect == Spec => []TypeOK
  <1>1. IInv => TypeOK
    <2> SUFFICES ASSUME IInv PROVE TypeOK
      OBVIOUS
    <2>1. \A r \in requests : r.run \in 1..MaxRuns /\ r.kind \in {"message", "tool", "complete"}
      BY RequestNumbers DEF IInv
    <2> QED
      BY <2>1 DEF IInv, Order, RowsGood, PagesGood, PagesTyped, TypeOK,
                  SessionRow, Message, CallRow, PageRow, Statuses, Triggers
  <1> QED
    BY <1>1, Invariant, PTL

(* recordDesktopMessage: every message is at the place its client gave it, *)
(* and a call has at most one result, though the length of the transcript  *)
(* is read without a lock, and requests of earlier runs and of reloaded    *)
(* pages still end.                                                        *)
THEOREM OrderSafe == Spec => []TranscriptInOrder
  <1>1. IInv => TranscriptInOrder
    BY DEF IInv, Order, Saved, SavedAt, TranscriptInOrder
  <1> QED
    BY <1>1, Invariant, PTL

(* claimDesktopToolCall: a tool has its effect once, whichever pages and   *)
(* clients ask for it again, unless the server died or stopped in it.      *)
THEOREM OnceSafe == Spec => []ToolRunsOnce
  <1>1. IInv => ToolRunsOnce
    <2> SUFFICES ASSUME IInv, NEW k \in Calls PROVE calls[k].ran <= 1 + calls[k].cut
      BY DEF ToolRunsOnce
    <2>1. \A row \in CallRow : row.ran \in Nat /\ row.cut \in Nat
      BY DEF CallRow
    <2>2. calls[k].ran \in Nat /\ calls[k].cut \in Nat
      BY <2>1 DEF IInv, RowsGood
    <2>3. Cardinality(Starting(k)) \in Nat
      <3>1. IsFiniteSet(requests) /\ Tools(k) \subseteq requests /\ Starting(k) \subseteq Tools(k)
        BY DEF IInv, RequestsGood, Tools, Starting
      <3> QED
        BY <3>1, ToolNumbers
    <2> QED
      BY <2>2, <2>3 DEF IInv, Effects, Effect
  <1> QED
    BY <1>1, Invariant, PTL
-----------------------------------------------------------------------------
(***************************************************************************)
(* The sessions that run on the server, module WorkbenchSession.  Slots,   *)
(* coordinators, sweeps and members' requests write one row in steps of    *)
(* their own.  Each knows its session while it is at work (GoodSlot,       *)
(* GoodCoord, GoodMember), a turn stores one of the outcomes there are,    *)
(* and every statement but the cancellation is guarded by it or keeps what *)
(* a row says of itself (GoodSession).                                     *)
(***************************************************************************)
AgentStatus == {"idle", "running", "waiting_user", "waiting_job", "done", "failed"}
AgentSession == [status : AgentStatus, waiting : Waitable, cancelled : BOOLEAN, call : BOOLEAN]
TurnJob == [trigger : {"user", "answer", "resume"}, owner : Procs \cup {Nobody}, live : BOOLEAN,
            status : {"pending", "leased", "complete", "failed"}, attempts : 0..MaxAttempts]
AgentSlot == [pc : SlotPc, s : Sessions \cup {Nobody}, turn : Nat, attempt : 0..MaxAttempts,
              prior : Waitable, result : Waitable \cup {"idle", "done"}, denied : BOOLEAN]
AgentCoord == [pc : CoordPc, todo : SUBSET [s : Sessions, on : Waitable], s : Sessions \cup {Nobody}]
MemberRequest == [pc : {"idle", "answering", "queueing", "cancelling"},
                  s : Sessions \cup {Nobody}, trigger : {"user", "answer"}]
Outcomes == {"idle", "done", Question} \cup Things

(* What a row of agent_sessions says of itself: what it waits for, and     *)
(* that no outcome of a turn was stored after its cancellation.            *)
GoodSession(row) ==
    /\ row \in AgentSession
    /\ row.status = "waiting_user" => row.waiting = Question
    /\ row.status = "waiting_job" => row.waiting \in Things
    /\ row.cancelled => row.status \in {"failed", "running", "waiting_user"}

(* A slot, a coordinator and a request know their session while at work,   *)
(* and what a turn is about to store is one of its outcomes.               *)
GoodSlot(a) ==
    /\ a \in AgentSlot
    /\ a.pc # "idle" => a.s \in Sessions
    /\ a.pc = "storing" => a.result \in Outcomes
GoodCoord(a) == a \in AgentCoord /\ (a.pc \notin {"idle", "listed"} => a.s \in Sessions)
GoodMember(a) == a \in MemberRequest /\ (a.pc # "idle" => a.s \in Sessions)

SessionsGood == sessions \in [Sessions -> AgentSession] /\ \A s \in Sessions : GoodSession(sessions[s])
TurnsGood == jobs \in [Sessions -> Seq(TurnJob)]
ThingsGood == thing \in [Things -> {"pending", "review", "ended"}]
SlotsGood == slot \in [Workers -> AgentSlot] /\ \A w \in Workers : GoodSlot(slot[w])
CoordsGood == coord \in [Procs -> AgentCoord] /\ \A p \in Procs : GoodCoord(coord[p])
MembersGood == member \in [Members -> MemberRequest] /\ \A m \in Members : GoodMember(member[m])
RestGood == /\ sweep \in [Procs -> SUBSET Sessions]
            /\ up \in SUBSET Procs /\ cut \in SUBSET Sessions /\ faults \in 0..MaxFaults

SessionInv == /\ SessionAssumption
              /\ SessionsGood /\ TurnsGood /\ ThingsGood /\ SlotsGood /\ CoordsGood /\ MembersGood
              /\ RestGood

(* A sequence whose elements are replaced one by one.                      *)
LEMMA SeqReplaced ==
    ASSUME NEW S, NEW q \in Seq(S), NEW r, DOMAIN r = DOMAIN q, r = [i \in DOMAIN r |-> r[i]],
           \A i \in DOMAIN q : r[i] \in S
    PROVE  r \in Seq(S)
  <1>1. DOMAIN q = 1..Len(q) /\ Len(q) \in Nat
    OBVIOUS
  <1>2. r \in [1..Len(q) -> S]
    BY <1>1
  <1> QED
    BY <1>1, <1>2, SeqDef

(* The steps of each actor. *)
MemberActs(m) == Send(m) \/ ReadQuestion(m) \/ Cancel(m) \/ RequestStep(m) \/ MemberFault(m)
SlotActs(w) == SlotStep(w) \/ Renew(w) \/ SlotFault(w)
ProcActs(p) == \/ CoordStep(p) \/ CoordFault(p) \/ SweepStep(p) \/ SweepFault(p)
               \/ Crash(p) \/ Boot(p)
Elsewhere == \/ \E t \in Things : Progress(t)
             \/ \E s \in Sessions : TurnExpires(s) \/ WorkerStalls(s)

LEMMA Actors ==
    ASSUME [SessionNext]_sessionVars
    PROVE  \/ \E m \in Members : MemberActs(m)
           \/ \E w \in Workers : SlotActs(w)
           \/ \E p \in Procs : ProcActs(p)
           \/ Elsewhere \/ UNCHANGED sessionVars
  BY DEF SessionNext, MemberActs, SlotActs, ProcActs, Elsewhere

LEMMA SessionInitial == SessionInit => SessionInv
  <1> SUFFICES ASSUME SessionInit PROVE SessionInv
    OBVIOUS
  <1> USE SessionAssumption
  <1>1. 0 \in 0..MaxAttempts /\ 0 \in 0..MaxFaults
    BY DEF SessionAssumption
  <1>2. SessionsGood
    <2>1. GoodSession([status |-> "idle", waiting |-> Nobody, cancelled |-> FALSE, call |-> FALSE])
      BY DEF GoodSession, AgentSession, AgentStatus, Waitable
    <2> QED
      BY <2>1 DEF SessionInit, SessionsGood, GoodSession
  <1>3. TurnsGood
    <2>1. <<>> \in Seq(TurnJob)
      OBVIOUS
    <2> QED
      BY <2>1 DEF SessionInit, TurnsGood
  <1>4. ThingsGood
    BY DEF SessionInit, ThingsGood
  <1>5. SlotsGood
    <2>1. GoodSlot(IdleSlot)
      BY <1>1 DEF GoodSlot, IdleSlot, AgentSlot, SlotPc, Waitable
    <2> QED
      BY <2>1 DEF SessionInit, SlotsGood, GoodSlot
  <1>6. CoordsGood
    <2>1. GoodCoord(IdleCoord)
      BY DEF GoodCoord, IdleCoord, AgentCoord, CoordPc
    <2> QED
      BY <2>1 DEF SessionInit, CoordsGood, GoodCoord
  <1>7. MembersGood
    <2>1. GoodMember(IdleMember)
      BY DEF GoodMember, IdleMember, MemberRequest
    <2> QED
      BY <2>1 DEF SessionInit, MembersGood, GoodMember
  <1>8. RestGood
    BY <1>1 DEF SessionInit, RestGood
  <1> QED
    BY <1>2, <1>3, <1>4, <1>5, <1>6, <1>7, <1>8 DEF SessionInv

-----------------------------------------------------------------------------
(* Rows of agent_sessions. *)
LEMMA SessionRows ==
    ASSUME NEW row, GoodSession(row)
    PROVE  /\ GoodSession([row EXCEPT !.status = "running"])
           /\ GoodSession([row EXCEPT !.status = "running", !.waiting = Nobody])
           /\ GoodSession([row EXCEPT !.status = "failed"])
           /\ GoodSession([row EXCEPT !.status = "failed", !.waiting = Nobody])
           /\ GoodSession([row EXCEPT !.status = "failed", !.waiting = Nobody, !.cancelled = TRUE])
           /\ GoodSession([row EXCEPT !.status = "failed", !.waiting = Nobody, !.call = FALSE])
           /\ GoodSession([row EXCEPT !.status = "waiting_user", !.waiting = Question])
  <1>1. row \in AgentSession /\ Nobody \in Waitable /\ Question \in Waitable
    BY DEF GoodSession, Waitable
  <1>2. GoodSession([row EXCEPT !.status = "running"])
    BY <1>1 DEF GoodSession, AgentSession, AgentStatus
  <1>3. GoodSession([row EXCEPT !.status = "running", !.waiting = Nobody])
    BY <1>1 DEF GoodSession, AgentSession, AgentStatus
  <1>4. GoodSession([row EXCEPT !.status = "failed"])
    BY <1>1 DEF GoodSession, AgentSession, AgentStatus
  <1>5. GoodSession([row EXCEPT !.status = "failed", !.waiting = Nobody])
    BY <1>1 DEF GoodSession, AgentSession, AgentStatus
  <1>6. GoodSession([row EXCEPT !.status = "failed", !.waiting = Nobody, !.cancelled = TRUE])
    BY <1>1 DEF GoodSession, AgentSession, AgentStatus
  <1>7. GoodSession([row EXCEPT !.status = "failed", !.waiting = Nobody, !.call = FALSE])
    BY <1>1 DEF GoodSession, AgentSession, AgentStatus
  <1>8. GoodSession([row EXCEPT !.status = "waiting_user", !.waiting = Question])
    BY <1>1 DEF GoodSession, AgentSession, AgentStatus
  <1> QED
    BY <1>2, <1>3, <1>4, <1>5, <1>6, <1>7, <1>8

LEMMA ResultGood == ASSUME NEW r \in Outcomes PROVE GoodSession(Result(r))
  <1>1. CASE r \in Things
    BY <1>1 DEF Result, GoodSession, AgentSession, AgentStatus, Waitable
  <1>2. CASE r \notin Things /\ r = Question
    BY <1>2 DEF Result, GoodSession, AgentSession, AgentStatus, Waitable
  <1>3. CASE r \notin Things /\ r # Question
    <2>1. r \in {"idle", "done"}
      BY <1>3 DEF Outcomes
    <2> QED
      BY <1>3, <2>1 DEF Result, GoodSession, AgentSession, AgentStatus, Waitable
  <1> QED
    BY <1>1, <1>2, <1>3

LEMMA SessionWritten ==
    ASSUME SessionsGood, NEW s, NEW row, s \in Sessions => GoodSession(row), WriteSession(s, row)
    PROVE  SessionsGood'
  <1>1. CASE s \in Sessions
    <2>1. row \in AgentSession
      BY <1>1 DEF GoodSession
    <2>2. sessions' \in [Sessions -> AgentSession]
          /\ \A z \in Sessions : sessions'[z] = IF z = s THEN row ELSE sessions[z]
      BY <2>1 DEF SessionsGood, WriteSession
    <2> QED
      BY <1>1, <2>2 DEF SessionsGood
  <1>2. CASE s \notin Sessions
    <2>1. sessions' \in [Sessions -> AgentSession] /\ \A z \in Sessions : sessions'[z] = sessions[z]
      BY <1>2 DEF SessionsGood, WriteSession
    <2> QED
      BY <2>1 DEF SessionsGood
  <1> QED
    BY <1>1, <1>2

LEMMA SessionMoves ==
    ASSUME SessionsGood, NEW s, SetStatus(s, "running") \/ Fail(s) PROVE SessionsGood'
  <1>1. s \in Sessions => GoodSession(sessions[s])
    BY DEF SessionsGood
  <1> QED
    BY <1>1, SessionRows, SessionWritten DEF SetStatus, Fail

LEMMA SessionsStep == ASSUME SessionInv, [SessionNext]_sessionVars PROVE SessionsGood'
  <1>0. SessionsGood
    BY DEF SessionInv
  <1> DEFINE Moved(s) == SetStatus(s, "running") \/ Fail(s)
  <1>1. ASSUME NEW s, Moved(s) PROVE SessionsGood'
    BY <1>0, <1>1, SessionMoves
  <1>2. CASE sessions' = sessions
    BY <1>0, <1>2 DEF SessionsGood
  <1>3. ASSUME NEW m \in Members,
               Send(m) \/ ReadQuestion(m) \/ Answer(m) \/ QueueTurn(m) \/ CancelTurns(m) \/ MemberFault(m)
        PROVE  \/ sessions' = sessions
               \/ \E s \in Sessions : Moved(s)
               \/ Moved(member[m].s)
    BY <1>3 DEF Send, ReadQuestion, Answer, QueueTurn, CancelTurns, MemberFault, rows
  <1>4. ASSUME NEW m \in Members, Cancel(m) PROVE SessionsGood'
    <2>1. PICK s \in Sessions :
            WriteSession(s, [sessions[s] EXCEPT !.status = "failed", !.waiting = Nobody, !.cancelled = TRUE])
      BY <1>4 DEF Cancel
    <2>2. GoodSession(sessions[s])
      BY <1>0 DEF SessionsGood
    <2> QED
      BY <1>0, <2>1, <2>2, SessionRows, SessionWritten
  <1>5. ASSUME NEW w \in Workers, StartTurn(w) PROVE SessionsGood'
    <2> DEFINE s == slot[w].s
    <2>1. s \in Sessions => GoodSession(sessions[s])
      BY <1>0 DEF SessionsGood
    <2>2. WriteSession(s, [sessions[s] EXCEPT !.status = "running", !.waiting = Nobody])
      BY <1>5 DEF StartTurn
    <2> QED
      BY <1>0, <2>1, <2>2, SessionRows, SessionWritten
  <1>6. ASSUME NEW w \in Workers, Store(w) PROVE SessionsGood'
    <2>1. slot[w].result \in Outcomes
      BY <1>6 DEF Store, SessionInv, SlotsGood, GoodSlot
    <2>2. sessions' = sessions \/ WriteSession(slot[w].s, Result(slot[w].result))
      BY <1>6 DEF Store
    <2> QED
      BY <1>0, <1>2, <2>1, <2>2, ResultGood, SessionWritten
  <1>7. ASSUME NEW w \in Workers, Record(w) PROVE SessionsGood'
    <2> DEFINE s == slot[w].s
    <2>1. s \in Sessions => GoodSession(sessions[s])
      BY <1>0 DEF SessionsGood
    <2>2. \/ sessions' = sessions
          \/ WriteSession(s, [sessions[s] EXCEPT !.status = "failed", !.waiting = Nobody, !.call = FALSE])
      BY <1>7 DEF Record
    <2> QED
      BY <1>0, <1>2, <2>1, <2>2, SessionRows, SessionWritten
  <1>8. ASSUME NEW w \in Workers, GiveBack(w) PROVE sessions' = sessions \/ Moved(slot[w].s)
    BY <1>8 DEF GiveBack
  <1>9. ASSUME NEW p \in Procs, Deny(p) \/ WakeSession(p)
        PROVE  sessions' = sessions \/ Moved(coord[p].s)
    BY <1>9 DEF Deny, WakeSession
  <1>10. ASSUME NEW p \in Procs, Ask(p) PROVE SessionsGood'
    <2> DEFINE s == coord[p].s
    <2>1. s \in Sessions => GoodSession(sessions[s])
      BY <1>0 DEF SessionsGood
    <2>2. WriteSession(s, [sessions[s] EXCEPT !.status = "waiting_user", !.waiting = Question])
      BY <1>10 DEF Ask
    <2> QED
      BY <1>0, <2>1, <2>2, SessionRows, SessionWritten
  <1>11. ASSUME NEW p \in Procs, SweepSession(p)
         PROVE  sessions' = sessions \/ \E s \in sweep[p] : Moved(s)
    BY <1>11 DEF SweepSession
  <1>12. ASSUME NEW p \in Procs, Boot(p) PROVE SessionsGood'
    <2>1. \A s \in Sessions : GoodSession(sessions[s])
                              /\ GoodSession([sessions[s] EXCEPT !.status = "failed"])
      BY <1>0, SessionRows DEF SessionsGood
    <2>2. PICK old \in SUBSET {s \in Sessions : ~Queueing(s)} :
            sessions' = [s \in Sessions |->
                IF s \in old /\ sessions[s].status = "running" /\ ~OpenTurn(s)
                THEN [sessions[s] EXCEPT !.status = "failed"] ELSE sessions[s]]
      BY <1>12 DEF Boot
    <2>3. \A s \in Sessions : sessions'[s] \in {sessions[s], [sessions[s] EXCEPT !.status = "failed"]}
      BY <2>2
    <2>4. \A s \in Sessions : GoodSession(sessions'[s])
      BY <2>1, <2>3
    <2>5. sessions' \in [Sessions -> AgentSession]
      BY <2>2, <2>4 DEF GoodSession
    <2> QED
      BY <2>4, <2>5 DEF SessionsGood
  <1>13. ASSUME NEW w \in Workers,
                \/ Claim(w) \/ Load(w) \/ Refuse(w) \/ Decide(w) \/ Throw(w)
                \/ Complete(w) \/ Renew(w) \/ SlotFault(w)
         PROVE  sessions' = sessions
    BY <1>13 DEF Claim, Load, Refuse, Decide, Throw, Complete, Renew, SlotFault,
           rows
  <1>14. ASSUME NEW p \in Procs,
                \/ List(p) \/ Look(p) \/ ListDone(p) \/ QueueResume(p) \/ CoordFault(p) \/ SweepTurns(p)
                \/ SweepFault(p) \/ Crash(p)
         PROVE  sessions' = sessions
    BY <1>14 DEF List, Look, ListDone, QueueResume, CoordFault, SweepTurns,
           SweepFault, Crash, rows
  <1>15. ASSUME Elsewhere PROVE sessions' = sessions
    BY <1>15 DEF Elsewhere, Progress, TurnExpires, WorkerStalls
  <1> HIDE DEF Moved
  <1>16. ASSUME NEW m \in Members, MemberActs(m) PROVE SessionsGood'
    BY <1>1, <1>2, <1>3, <1>4, <1>16 DEF MemberActs, RequestStep
  <1>17. ASSUME NEW w \in Workers, SlotActs(w) PROVE SessionsGood'
    BY <1>1, <1>2, <1>5, <1>6, <1>7, <1>8, <1>13, <1>17 DEF SlotActs, SlotStep
  <1>18. ASSUME NEW p \in Procs, ProcActs(p) PROVE SessionsGood'
    BY <1>1, <1>2, <1>9, <1>10, <1>11, <1>12, <1>14, <1>18 DEF ProcActs, CoordStep, SweepStep
  <1> QED
    BY <1>2, <1>15, <1>16, <1>17, <1>18, Actors DEF sessionVars

-----------------------------------------------------------------------------
(* Turns. *)
LEMMA TurnRows ==
    ASSUME NEW t \in TurnJob
    PROVE  /\ \A b \in BOOLEAN : [t EXCEPT !.live = b] \in TurnJob
           /\ \A z \in {"pending", "complete", "failed"} :
                [t EXCEPT !.status = z, !.owner = Nobody, !.live = FALSE] \in TurnJob
  <1>1. \A b \in BOOLEAN : [t EXCEPT !.live = b] \in TurnJob
    BY DEF TurnJob
  <1>2. \A z \in {"pending", "complete", "failed"} :
            [t EXCEPT !.status = z, !.owner = Nobody, !.live = FALSE] \in TurnJob
    BY DEF TurnJob
  <1> QED
    BY <1>1, <1>2

LEMMA TurnWritten ==
    ASSUME TurnsGood, NEW s, NEW i, NEW t,
           s \in Sessions /\ i \in DOMAIN jobs[s] => t \in TurnJob,
           WriteTurn(s, i, t)
    PROVE  TurnsGood'
  <1>1. CASE s \in Sessions
    <2> DEFINE q == jobs[s]
               r == [jobs[s] EXCEPT ![i] = t]
    <2>1. q \in Seq(TurnJob)
      BY <1>1 DEF TurnsGood
    <2>2. \A j \in DOMAIN q : q[j] \in TurnJob
      BY <2>1
    <2>3. /\ DOMAIN r = DOMAIN q /\ r = [j \in DOMAIN r |-> r[j]]
          /\ \A j \in DOMAIN q : r[j] = IF j = i THEN t ELSE q[j]
      OBVIOUS
    <2>4. \A j \in DOMAIN q : r[j] \in TurnJob
      BY <1>1, <2>2, <2>3
    <2> HIDE DEF q, r
    <2>5. r \in Seq(TurnJob)
      BY <2>1, <2>3, <2>4, SeqReplaced
    <2>6. jobs' = [jobs EXCEPT ![s] = r]
      BY DEF WriteTurn, r
    <2> QED
      BY <2>5, <2>6 DEF TurnsGood
  <1>2. CASE s \notin Sessions
    BY <1>2 DEF TurnsGood, WriteTurn
  <1> QED
    BY <1>1, <1>2

LEMMA TurnQueued ==
    ASSUME TurnsGood, SessionAssumption, NEW s, NEW trigger \in {"user", "answer", "resume"},
           Enqueue(s, trigger)
    PROVE  TurnsGood'
  <1> DEFINE t == [trigger |-> trigger, status |-> "pending", owner |-> Nobody, live |-> FALSE,
                   attempts |-> 0]
  <1>1. t \in TurnJob
    <2>1. 0 \in 0..MaxAttempts
      BY DEF SessionAssumption
    <2> QED
      BY <2>1 DEF TurnJob
  <1>2. jobs' = [jobs EXCEPT ![s] = Append(jobs[s], t)]
    BY DEF Enqueue
  <1> HIDE DEF t
  <1>3. s \in Sessions => Append(jobs[s], t) \in Seq(TurnJob)
    BY <1>1 DEF TurnsGood
  <1> QED
    BY <1>2, <1>3 DEF TurnsGood

LEMMA TurnsHeld ==
    ASSUME TurnsGood, NEW s \in Sessions
    PROVE  /\ jobs[s] \in Seq(TurnJob)
           /\ jobs[s] = [i \in DOMAIN jobs[s] |-> jobs[s][i]]
           /\ \A i \in DOMAIN jobs[s] : i \in Nat /\ jobs[s][i] \in TurnJob
  <1>1. jobs[s] \in Seq(TurnJob)
    BY DEF TurnsGood
  <1>2. PICK n \in Nat : jobs[s] \in [1..n -> TurnJob]
    BY <1>1, SeqDef
  <1> QED
    BY <1>1, <1>2

(* Statements on many turns of a session at once. *)
LEMMA TurnsReplaced ==
    ASSUME TurnsGood, DOMAIN jobs' = Sessions, jobs' = [s \in Sessions |-> jobs'[s]],
           \A s \in Sessions :
             /\ DOMAIN jobs'[s] = DOMAIN jobs[s]
             /\ jobs'[s] = [i \in DOMAIN jobs'[s] |-> jobs'[s][i]]
             /\ \A i \in DOMAIN jobs[s] :
                  jobs'[s][i] \in {jobs[s][i], [jobs[s][i] EXCEPT !.status = "failed", !.owner = Nobody, !.live = FALSE]}
    PROVE  TurnsGood'
  <1> SUFFICES ASSUME NEW s \in Sessions PROVE jobs'[s] \in Seq(TurnJob)
    BY DEF TurnsGood
  <1>1. jobs[s] \in Seq(TurnJob)
    BY TurnsHeld
  <1>2. \A i \in DOMAIN jobs[s] : jobs[s][i] \in TurnJob
    BY TurnsHeld
  <1>3. ASSUME NEW i \in DOMAIN jobs[s] PROVE jobs'[s][i] \in TurnJob
    <2>1. jobs[s][i] \in TurnJob
      BY <1>2
    <2>2. [jobs[s][i] EXCEPT !.status = "failed", !.owner = Nobody, !.live = FALSE] \in TurnJob
      BY <2>1, TurnRows
    <2> QED
      BY <2>1, <2>2
  <1> QED
    BY <1>1, <1>3, SeqReplaced

LEMMA TurnsStep == ASSUME SessionInv, [SessionNext]_sessionVars PROVE TurnsGood'
  <1>0. TurnsGood /\ SessionAssumption
    BY DEF SessionInv
  <1>1. \A s \in Sessions : \A i \in DOMAIN jobs[s] : jobs[s][i] \in TurnJob
    BY <1>0, TurnsHeld
  <1>2. CASE jobs' = jobs
    BY <1>0, <1>2 DEF TurnsGood
  <1>3. ASSUME NEW m \in Members, QueueTurn(m) PROVE TurnsGood'
    <2>1. member[m].trigger \in {"user", "answer"}
      BY DEF SessionInv, MembersGood, MemberRequest
    <2> QED
      BY <1>0, <1>3, <2>1, TurnQueued DEF QueueTurn
  <1>4. ASSUME NEW p \in Procs, QueueResume(p) PROVE TurnsGood'
    BY <1>0, <1>4, TurnQueued DEF QueueResume
  <1>5. ASSUME NEW m \in Members, CancelTurns(m) PROVE TurnsGood'
    <2> DEFINE z == member[m].s
    <2>1. jobs' = [jobs EXCEPT ![z] = [i \in DOMAIN jobs[z] |->
                IF ~Open(jobs[z][i]) THEN jobs[z][i]
                ELSE [jobs[z][i] EXCEPT !.status = "failed", !.owner = Nobody, !.live = FALSE]]]
      BY <1>5 DEF CancelTurns
    <2> HIDE DEF z
    <2>2. DOMAIN jobs' = Sessions /\ jobs' = [s \in Sessions |-> jobs'[s]]
      BY <1>0, <2>1 DEF TurnsGood
    <2>3. ASSUME NEW s \in Sessions
          PROVE  jobs'[s] = IF s = z THEN [i \in DOMAIN jobs[s] |->
                    IF ~Open(jobs[s][i]) THEN jobs[s][i]
                    ELSE [jobs[s][i] EXCEPT !.status = "failed", !.owner = Nobody, !.live = FALSE]]
                    ELSE jobs[s]
      BY <1>0, <2>1 DEF TurnsGood
    <2>4. ASSUME NEW s \in Sessions
          PROVE  /\ DOMAIN jobs'[s] = DOMAIN jobs[s]
                 /\ jobs'[s] = [i \in DOMAIN jobs'[s] |-> jobs'[s][i]]
                 /\ \A i \in DOMAIN jobs[s] :
                      jobs'[s][i] \in {jobs[s][i], [jobs[s][i] EXCEPT !.status = "failed", !.owner = Nobody, !.live = FALSE]}
      <3>1. jobs[s] = [i \in DOMAIN jobs[s] |-> jobs[s][i]]
        BY <1>0, TurnsHeld
      <3>2. CASE s = z
        BY <2>3, <3>2
      <3>3. CASE s # z
        BY <2>3, <3>1, <3>3
      <3> QED
        BY <3>2, <3>3
    <2> QED
      BY <1>0, <2>2, <2>4, TurnsReplaced
  <1>6. ASSUME NEW p \in Procs, SweepTurns(p) PROVE TurnsGood'
    <2>1. jobs' = [s \in Sessions |-> [i \in DOMAIN jobs[s] |->
            IF ~Exhausted(jobs[s][i]) THEN jobs[s][i]
            ELSE [jobs[s][i] EXCEPT !.status = "failed", !.owner = Nobody, !.live = FALSE]]]
      BY <1>6 DEF SweepTurns
    <2>2. DOMAIN jobs' = Sessions /\ jobs' = [s \in Sessions |-> jobs'[s]]
      BY <2>1
    <2>3. ASSUME NEW s \in Sessions
          PROVE  /\ DOMAIN jobs'[s] = DOMAIN jobs[s]
                 /\ jobs'[s] = [i \in DOMAIN jobs'[s] |-> jobs'[s][i]]
                 /\ \A i \in DOMAIN jobs[s] :
                      jobs'[s][i] \in {jobs[s][i], [jobs[s][i] EXCEPT !.status = "failed", !.owner = Nobody, !.live = FALSE]}
      BY <2>1
    <2> QED
      BY <1>0, <2>2, <2>3, TurnsReplaced
  <1>7. ASSUME NEW w \in Workers, Claim(w) PROVE TurnsGood'
    <2>1. PICK s \in Sessions : \E i \in DOMAIN jobs[s] :
            /\ MayClaim(jobs[s][i])
            /\ WriteTurn(s, i, [jobs[s][i] EXCEPT !.status = "leased", !.owner = OwnerOf(w),
                                   !.live = TRUE, !.attempts = jobs[s][i].attempts + 1])
      BY <1>7 DEF Claim
    <2>2. PICK i \in DOMAIN jobs[s] :
            /\ MayClaim(jobs[s][i])
            /\ WriteTurn(s, i, [jobs[s][i] EXCEPT !.status = "leased", !.owner = OwnerOf(w),
                                   !.live = TRUE, !.attempts = jobs[s][i].attempts + 1])
      BY <2>1
    <2> DEFINE t == jobs[s][i]
    <2>3. t \in TurnJob /\ OwnerOf(w) \in Procs
      BY <1>1 DEF OwnerOf, Workers
    <2>4. t.attempts + 1 \in 0..MaxAttempts
      BY <1>0, <2>2, <2>3 DEF MayClaim, TurnJob, SessionAssumption
    <2> HIDE DEF t
    <2>5. [t EXCEPT !.status = "leased", !.owner = OwnerOf(w), !.live = TRUE,
                    !.attempts = t.attempts + 1] \in TurnJob
      BY <2>3, <2>4 DEF TurnJob
    <2>6. WriteTurn(s, i, [t EXCEPT !.status = "leased", !.owner = OwnerOf(w), !.live = TRUE,
                                    !.attempts = t.attempts + 1])
      BY <2>2 DEF t
    <2> QED
      BY <1>0, <2>5, <2>6, TurnWritten
  <1>8. ASSUME NEW s, NEW i, NEW z \in {"pending", "complete", "failed"},
               WriteTurn(s, i, [jobs[s][i] EXCEPT !.status = z, !.owner = Nobody, !.live = FALSE])
        PROVE  TurnsGood'
    BY <1>0, <1>1, <1>8, TurnRows, TurnWritten
  <1>9. ASSUME NEW w \in Workers, Complete(w) \/ GiveBack(w) PROVE TurnsGood'
    <2>1. \/ jobs' = jobs
          \/ \E z \in {"pending", "complete", "failed"} :
               WriteTurn(slot[w].s, slot[w].turn, [jobs[slot[w].s][slot[w].turn] EXCEPT
                            !.status = z, !.owner = Nobody, !.live = FALSE])
      BY <1>9 DEF Complete, GiveBack, ReturnTurn, Turn
    <2> QED
      BY <1>2, <1>8, <2>1
  <1>10. ASSUME NEW s, NEW i, NEW b \in BOOLEAN,
                WriteTurn(s, i, [jobs[s][i] EXCEPT !.live = b])
         PROVE  TurnsGood'
    BY <1>0, <1>1, <1>10, TurnRows, TurnWritten
  <1>11. ASSUME NEW w \in Workers, Renew(w) PROVE TurnsGood'
    BY <1>10, <1>11 DEF Renew, Turn
  <1>12. ASSUME NEW s \in Sessions, TurnExpires(s) \/ WorkerStalls(s) PROVE TurnsGood'
    <2>1. PICK i : WriteTurn(s, i, [jobs[s][i] EXCEPT !.live = FALSE])
      BY <1>12 DEF TurnExpires, WorkerStalls, Lapse
    <2> QED
      BY <1>10, <2>1
  <1>13. ASSUME NEW m \in Members,
                Send(m) \/ ReadQuestion(m) \/ Cancel(m) \/ Answer(m) \/ MemberFault(m)
         PROVE  jobs' = jobs
    BY <1>13 DEF Send, ReadQuestion, Cancel, Answer, MemberFault, rows
  <1>14. ASSUME NEW w \in Workers,
                \/ Load(w) \/ Refuse(w) \/ StartTurn(w) \/ Decide(w) \/ Throw(w) \/ Store(w) \/ Record(w)
                \/ SlotFault(w)
         PROVE  jobs' = jobs
    BY <1>14 DEF Load, Refuse, StartTurn, Decide, Throw, Store, Record, SlotFault,
           rows
  <1>15. ASSUME NEW p \in Procs,
                \/ List(p) \/ Look(p) \/ ListDone(p) \/ Deny(p) \/ Ask(p) \/ WakeSession(p) \/ CoordFault(p)
                \/ SweepSession(p) \/ SweepFault(p) \/ Crash(p) \/ Boot(p)
         PROVE  jobs' = jobs
    BY <1>15 DEF List, Look, ListDone, Deny, Ask, WakeSession, CoordFault, SweepSession,
           SweepFault, Crash,
                 Boot, rows
  <1>16. ASSUME Elsewhere PROVE TurnsGood'
    BY <1>2, <1>12, <1>16 DEF Elsewhere, Progress
  <1>17. ASSUME NEW m \in Members, MemberActs(m) PROVE TurnsGood'
    BY <1>2, <1>3, <1>5, <1>13, <1>17 DEF MemberActs, RequestStep
  <1>18. ASSUME NEW w \in Workers, SlotActs(w) PROVE TurnsGood'
    BY <1>2, <1>7, <1>9, <1>11, <1>14, <1>18 DEF SlotActs, SlotStep
  <1>19. ASSUME NEW p \in Procs, ProcActs(p) PROVE TurnsGood'
    BY <1>2, <1>4, <1>6, <1>15, <1>19 DEF ProcActs, CoordStep, SweepStep
  <1> QED
    BY <1>2, <1>16, <1>17, <1>18, <1>19, Actors DEF sessionVars
-----------------------------------------------------------------------------
(* Slots. *)
LEMMA SlotWritten ==
    ASSUME SlotsGood, NEW w \in Workers, NEW a, GoodSlot(a), SlotTo(w, a) PROVE SlotsGood'
  <1>1. a \in AgentSlot
    BY DEF GoodSlot
  <1>2. slot' \in [Workers -> AgentSlot] /\ \A v \in Workers : slot'[v] = IF v = w THEN a ELSE slot[v]
    BY <1>1 DEF SlotTo, SlotsGood
  <1> QED
    BY <1>2 DEF SlotsGood

LEMMA SlotRows ==
    ASSUME NEW a, GoodSlot(a), a.pc # "idle"
    PROVE  /\ \A pc \in SlotPc \ {"storing"} :
                /\ GoodSlot([a EXCEPT !.pc = pc])
                /\ GoodSlot([a EXCEPT !.pc = pc, !.prior = Nobody])
                /\ GoodSlot([a EXCEPT !.pc = pc, !.result = Nobody])
                /\ \A denied \in BOOLEAN :
                     /\ GoodSlot([a EXCEPT !.pc = pc, !.denied = denied])
                     /\ GoodSlot([a EXCEPT !.pc = pc, !.denied = denied, !.prior = Nobody])
                     /\ GoodSlot([a EXCEPT !.pc = pc, !.denied = denied, !.result = Nobody])
                /\ \A x \in Waitable : GoodSlot([a EXCEPT !.pc = pc, !.prior = x])
           /\ \A r \in Outcomes : GoodSlot([a EXCEPT !.pc = "storing", !.result = r])
  <1>1. a \in AgentSlot /\ a.s \in Sessions /\ Nobody \in Waitable
    BY DEF GoodSlot, Waitable
  <1>2. ASSUME NEW pc \in SlotPc \ {"storing"}
        PROVE  /\ GoodSlot([a EXCEPT !.pc = pc])
               /\ GoodSlot([a EXCEPT !.pc = pc, !.result = Nobody])
               /\ \A x \in Waitable : GoodSlot([a EXCEPT !.pc = pc, !.prior = x])
    <2>1. GoodSlot([a EXCEPT !.pc = pc])
      BY <1>1 DEF GoodSlot, AgentSlot
    <2>2. GoodSlot([a EXCEPT !.pc = pc, !.result = Nobody])
      BY <1>1 DEF GoodSlot, AgentSlot
    <2>3. ASSUME NEW x \in Waitable PROVE GoodSlot([a EXCEPT !.pc = pc, !.prior = x])
      BY <1>1 DEF GoodSlot, AgentSlot
    <2> QED
      BY <2>1, <2>2, <2>3
  <1>3. ASSUME NEW pc \in SlotPc \ {"storing"}, NEW denied \in BOOLEAN
        PROVE  /\ GoodSlot([a EXCEPT !.pc = pc, !.denied = denied])
               /\ GoodSlot([a EXCEPT !.pc = pc, !.denied = denied, !.prior = Nobody])
               /\ GoodSlot([a EXCEPT !.pc = pc, !.denied = denied, !.result = Nobody])
    <2>1. GoodSlot([a EXCEPT !.pc = pc, !.denied = denied])
      BY <1>1 DEF GoodSlot, AgentSlot
    <2>2. GoodSlot([a EXCEPT !.pc = pc, !.denied = denied, !.prior = Nobody])
      BY <1>1 DEF GoodSlot, AgentSlot
    <2>3. GoodSlot([a EXCEPT !.pc = pc, !.denied = denied, !.result = Nobody])
      BY <1>1 DEF GoodSlot, AgentSlot
    <2> QED
      BY <2>1, <2>2, <2>3
  <1>4. ASSUME NEW r \in Outcomes PROVE GoodSlot([a EXCEPT !.pc = "storing", !.result = r])
    <2>1. r \in Waitable \cup {"idle", "done"} /\ "storing" \in SlotPc
      BY DEF Outcomes, Waitable, SlotPc
    <2> QED
      BY <1>1, <2>1 DEF GoodSlot, AgentSlot
  <1> QED
    BY <1>1, <1>2, <1>3, <1>4

LEMMA SlotsStep == ASSUME SessionInv, [SessionNext]_sessionVars PROVE SlotsGood'
  <1>0. SlotsGood /\ SessionAssumption
    BY DEF SessionInv
  <1>1. GoodSlot(IdleSlot)
    <2>1. 0 \in 0..MaxAttempts
      BY <1>0 DEF SessionAssumption
    <2> QED
      BY <2>1 DEF GoodSlot, IdleSlot, AgentSlot, SlotPc, Waitable
  <1>2. \A w \in Workers : GoodSlot(slot[w])
    BY <1>0 DEF SlotsGood
  <1>3. \A pc \in {"idle", "loading", "starting", "working", "completing", "recording", "returning"} :
            pc \in SlotPc \ {"storing"}
    BY DEF SlotPc
  <1>4. ASSUME NEW w \in Workers, Claim(w) PROVE SlotsGood'
    <2>1. PICK s \in Sessions : \E i \in DOMAIN jobs[s] :
            /\ MayClaim(jobs[s][i])
            /\ SlotTo(w, [IdleSlot EXCEPT !.pc = "loading", !.s = s, !.turn = i,
                                          !.attempt = jobs[s][i].attempts + 1])
      BY <1>4 DEF Claim
    <2>2. PICK i \in DOMAIN jobs[s] :
            /\ MayClaim(jobs[s][i])
            /\ SlotTo(w, [IdleSlot EXCEPT !.pc = "loading", !.s = s, !.turn = i,
                                          !.attempt = jobs[s][i].attempts + 1])
      BY <2>1
    <2>3. jobs[s][i] \in TurnJob /\ i \in Nat
      BY TurnsHeld DEF SessionInv
    <2> DEFINE next == jobs[s][i].attempts + 1
    <2>4. next \in 0..MaxAttempts
      BY <1>0, <2>2, <2>3 DEF MayClaim, TurnJob, SessionAssumption
    <2> HIDE DEF next
    <2> DEFINE a == [IdleSlot EXCEPT !.pc = "loading", !.s = s, !.turn = i, !.attempt = next]
    <2>5. IdleSlot \in AgentSlot /\ "loading" \in SlotPc
      BY <1>1 DEF GoodSlot, SlotPc
    <2>6. a \in AgentSlot /\ a.s = s /\ a.pc = "loading"
      BY <2>3, <2>4, <2>5 DEF AgentSlot
    <2>7. SlotTo(w, a)
      BY <2>2 DEF next
    <2> HIDE DEF a
    <2>8. GoodSlot(a)
      BY <2>6 DEF GoodSlot
    <2> QED
      BY <1>0, <2>7, <2>8, SlotWritten
  <1>5. ASSUME NEW w \in Workers, NEW a, GoodSlot(a), SlotTo(w, a) PROVE SlotsGood'
    BY <1>0, <1>5, SlotWritten
  <1>6. ASSUME NEW w \in Workers, slot[w].pc # "idle", NEW pc \in SlotPc \ {"storing"}, NEW denied \in BOOLEAN,
               NEW x \in Waitable,
               \/ SlotTo(w, IdleSlot)
               \/ SlotTo(w, [slot[w] EXCEPT !.pc = pc])
               \/ SlotTo(w, [slot[w] EXCEPT !.pc = pc, !.prior = Nobody])
               \/ SlotTo(w, [slot[w] EXCEPT !.pc = pc, !.result = Nobody])
               \/ SlotTo(w, [slot[w] EXCEPT !.pc = pc, !.denied = denied])
               \/ SlotTo(w, [slot[w] EXCEPT !.pc = pc, !.denied = denied, !.prior = Nobody])
               \/ SlotTo(w, [slot[w] EXCEPT !.pc = pc, !.denied = denied, !.result = Nobody])
               \/ SlotTo(w, [slot[w] EXCEPT !.pc = pc, !.prior = x])
        PROVE  SlotsGood'
    <2>1. GoodSlot(slot[w])
      BY <1>2
    <2>2. PICK a : GoodSlot(a) /\ SlotTo(w, a)
      BY <1>1, <1>6, <2>1, SlotRows
    <2> QED
      BY <1>5, <2>2
  <1>7. Nobody \in Waitable
    BY DEF Waitable
  <1>8. ASSUME NEW w \in Workers, Load(w) PROVE SlotsGood'
    <2>1. slot[w].pc # "idle" /\ slot[w].s \in Sessions
      BY <1>2, <1>8 DEF Load, GoodSlot
    <2>2. sessions[slot[w].s].waiting \in Waitable
      BY <2>1 DEF SessionInv, SessionsGood, AgentSession
    <2>3. \/ SlotTo(w, [slot[w] EXCEPT !.pc = "returning", !.denied = TRUE])
          \/ SlotTo(w, [slot[w] EXCEPT !.pc = "completing"])
          \/ SlotTo(w, [slot[w] EXCEPT !.pc = "starting", !.prior = sessions[slot[w].s].waiting])
      BY <1>8 DEF Load
    <2> QED
      BY <1>3, <1>6, <2>1, <2>2, <2>3
  <1>9. ASSUME NEW w \in Workers, Refuse(w) \/ StartTurn(w) PROVE SlotsGood'
    <2>1. slot[w].pc # "idle"
      BY <1>9 DEF Refuse, StartTurn
    <2>2. \/ SlotTo(w, [slot[w] EXCEPT !.pc = "completing", !.prior = Nobody])
          \/ SlotTo(w, [slot[w] EXCEPT !.pc = "working", !.prior = Nobody])
          \/ \E denied \in BOOLEAN :
               SlotTo(w, [slot[w] EXCEPT !.pc = "returning", !.denied = denied, !.prior = Nobody])
      BY <1>9 DEF Refuse, StartTurn
    <2> QED
      BY <1>3, <1>6, <1>7, <2>1, <2>2
  <1>10. ASSUME NEW w \in Workers, Decide(w) PROVE SlotsGood'
    <2>1. PICK r \in Outcomes : SlotTo(w, [slot[w] EXCEPT !.pc = "storing", !.result = r])
      BY <1>10 DEF Decide, Outcomes
    <2>2. GoodSlot([slot[w] EXCEPT !.pc = "storing", !.result = r])
      BY <1>2, <1>10, SlotRows DEF Decide
    <2> QED
      BY <1>5, <2>1, <2>2
  <1>11. ASSUME NEW w \in Workers, Throw(w) \/ Store(w) PROVE SlotsGood'
    <2>1. slot[w].pc # "idle"
      BY <1>11 DEF Throw, Store
    <2>2. \/ SlotTo(w, [slot[w] EXCEPT !.pc = "completing", !.result = Nobody])
          \/ \E denied \in BOOLEAN :
               SlotTo(w, [slot[w] EXCEPT !.pc = "recording", !.denied = denied, !.result = Nobody])
      BY <1>11 DEF Throw, Store
    <2> QED
      BY <1>3, <1>6, <1>7, <2>1, <2>2
  <1>12. ASSUME NEW w \in Workers, Complete(w) \/ GiveBack(w) \/ Record(w) \/ SlotFault(w)
          PROVE SlotsGood'
    <2>1. slot[w].pc # "idle"
      BY <1>12 DEF Complete, GiveBack, Record, SlotFault
    <2>2. \/ SlotTo(w, IdleSlot)
          \/ SlotTo(w, [slot[w] EXCEPT !.pc = "returning"])
          \/ SlotTo(w, [slot[w] EXCEPT !.pc = "recording"])
      BY <1>12 DEF Complete, GiveBack, Record, SlotFault, SlotAt
    <2> QED
      BY <1>3, <1>6, <1>7, <2>1, <2>2
  <1>13. ASSUME NEW p \in Procs, Crash(p) PROVE SlotsGood'
    <2>1. slot' = [w \in Workers |-> IF OwnerOf(w) = p THEN IdleSlot ELSE slot[w]]
      BY <1>13 DEF Crash
    <2>2. \A w \in Workers : GoodSlot(slot'[w])
      BY <1>1, <1>2, <2>1
    <2> QED
      BY <2>1, <2>2 DEF SlotsGood, GoodSlot
  <1>14. CASE slot' = slot
    BY <1>0, <1>14 DEF SlotsGood
  <1>15. ASSUME NEW m \in Members, MemberActs(m) PROVE slot' = slot
    BY <1>15 DEF MemberActs, RequestStep, Send, ReadQuestion, Cancel, Answer, QueueTurn,
                CancelTurns, MemberFault
  <1>16. ASSUME NEW p \in Procs, CoordStep(p) \/ CoordFault(p) \/ SweepStep(p) \/ SweepFault(p) \/ Boot(p)
         PROVE  slot' = slot
    BY <1>16 DEF CoordStep, SweepStep, List, Look, ListDone, Deny, Ask, WakeSession,
           QueueResume, CoordFault,
                 SweepTurns, SweepSession, SweepFault, Boot
  <1>17. ASSUME \/ Elsewhere
                \/ \E w \in Workers : Renew(w)
         PROVE  slot' = slot
    BY <1>17 DEF Elsewhere, Progress, TurnExpires, WorkerStalls, Renew, actors
  <1>18. ASSUME NEW w \in Workers, SlotStep(w) \/ SlotFault(w) PROVE SlotsGood'
    BY <1>4, <1>8, <1>9, <1>10, <1>11, <1>12, <1>18 DEF SlotStep
  <1>19. ASSUME NEW p \in Procs, ProcActs(p) PROVE SlotsGood'
    BY <1>13, <1>14, <1>16, <1>19 DEF ProcActs
  <1>20. ASSUME NEW w \in Workers, SlotActs(w) PROVE SlotsGood'
    BY <1>14, <1>17, <1>18, <1>20 DEF SlotActs
  <1>21. ASSUME NEW m \in Members, MemberActs(m) PROVE SlotsGood'
    BY <1>14, <1>15, <1>21 DEF MemberActs
  <1> QED
    BY <1>14, <1>17, <1>19, <1>20, <1>21, Actors DEF sessionVars

-----------------------------------------------------------------------------
(* Coordinators. *)
LEMMA CoordWritten ==
    ASSUME CoordsGood, NEW p \in Procs, NEW a, GoodCoord(a), CoordTo(p, a) PROVE CoordsGood'
  <1>1. a \in AgentCoord
    BY DEF GoodCoord
  <1>2. coord' \in [Procs -> AgentCoord] /\ \A q \in Procs : coord'[q] = IF q = p THEN a ELSE coord[q]
    BY <1>1 DEF CoordTo, CoordsGood
  <1> QED
    BY <1>2 DEF CoordsGood

LEMMA CoordsStep == ASSUME SessionInv, [SessionNext]_sessionVars PROVE CoordsGood'
  <1>0. CoordsGood
    BY DEF SessionInv
  <1>1. GoodCoord(IdleCoord)
    BY DEF GoodCoord, IdleCoord, AgentCoord, CoordPc
  <1>2. ASSUME NEW p \in Procs
        PROVE  /\ coord[p] \in AgentCoord
               /\ coord[p].pc \notin {"idle", "listed"} => coord[p].s \in Sessions
    BY <1>0 DEF CoordsGood, GoodCoord
  <1>3. ASSUME NEW p \in Procs, CoordTo(p, IdleCoord) PROVE CoordsGood'
    BY <1>0, <1>1, <1>3, CoordWritten
  <1>4. ASSUME NEW p \in Procs, NEW pc \in CoordPc, CoordAt(p, pc),
               coord[p].pc \notin {"idle", "listed"}
        PROVE  CoordsGood'
    <2>1. GoodCoord([coord[p] EXCEPT !.pc = pc])
      BY <1>2, <1>4 DEF GoodCoord, AgentCoord
    <2> QED
      BY <1>0, <1>4, <2>1, CoordWritten DEF CoordAt
  <1>5. ASSUME NEW p \in Procs, List(p) PROVE CoordsGood'
    <2> DEFINE todo == {[s |-> s, on |-> sessions[s].waiting] :
                          s \in {z \in Sessions : sessions[z].status = "waiting_job"}}
    <2>1. todo \in SUBSET [s : Sessions, on : Waitable]
      <3>1. \A s \in Sessions : sessions[s].waiting \in Waitable
        BY DEF SessionInv, SessionsGood, AgentSession
      <3> QED
        BY <3>1
    <2>2. CoordTo(p, [IdleCoord EXCEPT !.pc = "listed", !.todo = todo])
      BY <1>5 DEF List
    <2> HIDE DEF todo
    <2>3. IdleCoord \in AgentCoord /\ "listed" \in CoordPc
      BY <1>1 DEF GoodCoord, CoordPc
    <2>4. GoodCoord([IdleCoord EXCEPT !.pc = "listed", !.todo = todo])
      BY <2>1, <2>3 DEF GoodCoord, AgentCoord
    <2> QED
      BY <1>0, <2>2, <2>4, CoordWritten
  <1>6. ASSUME NEW p \in Procs, Look(p) PROVE CoordsGood'
    <2>1. PICK x \in coord[p].todo :
            CoordTo(p, [todo |-> coord[p].todo \ {x}, s |-> x.s,
                        pc |-> IF sessions[x.s].cancelled THEN "denying" ELSE NextStep(x.on)])
      BY <1>6 DEF Look
    <2>2. coord[p].todo \in SUBSET [s : Sessions, on : Waitable]
      BY <1>2 DEF AgentCoord
    <2>3. x.s \in Sessions /\ coord[p].todo \ {x} \in SUBSET [s : Sessions, on : Waitable]
      BY <2>1, <2>2
    <2> DEFINE todo == coord[p].todo \ {x}
               pc == IF sessions[x.s].cancelled THEN "denying" ELSE NextStep(x.on)
    <2>4. pc \in CoordPc
      BY DEF NextStep, CoordPc
    <2>5. todo \in SUBSET [s : Sessions, on : Waitable]
      BY <2>3
    <2>6. CoordTo(p, [todo |-> todo, s |-> x.s, pc |-> pc])
      BY <2>1
    <2> HIDE DEF pc, todo
    <2>7. GoodCoord([todo |-> todo, s |-> x.s, pc |-> pc])
      BY <2>3, <2>4, <2>5 DEF GoodCoord, AgentCoord
    <2> QED
      BY <1>0, <2>6, <2>7, CoordWritten
  <1>7. {"listed", "queueing", "denying"} \subseteq CoordPc
    BY DEF CoordPc
  <1>8. ASSUME NEW p \in Procs, Deny(p) \/ Ask(p) \/ WakeSession(p) \/ QueueResume(p)
          PROVE CoordsGood'
    <2>1. coord[p].pc \notin {"idle", "listed"}
      BY <1>8 DEF Deny, Ask, WakeSession, QueueResume
    <2>2. CoordAt(p, "listed") \/ CoordAt(p, "queueing")
      BY <1>8 DEF Deny, Ask, WakeSession, QueueResume
    <2> QED
      BY <1>4, <1>7, <2>1, <2>2
  <1>9. ASSUME NEW p \in Procs, ListDone(p) \/ CoordFault(p) \/ Crash(p) PROVE CoordsGood'
    <2>1. \/ CoordTo(p, IdleCoord)
          \/ coord[p].pc \in {"claiming", "asking"} /\ CoordAt(p, "denying")
      BY <1>9 DEF ListDone, CoordFault, Crash
    <2> QED
      BY <1>3, <1>4, <1>7, <2>1
  <1>10. CASE coord' = coord
    BY <1>0, <1>10 DEF CoordsGood
  <1>11. ASSUME NEW m \in Members, MemberActs(m) PROVE coord' = coord
    BY <1>11 DEF MemberActs, RequestStep, Send, ReadQuestion, Cancel, Answer, QueueTurn,
                CancelTurns, MemberFault
  <1>12. ASSUME NEW w \in Workers, SlotActs(w) PROVE coord' = coord
    BY <1>12 DEF SlotActs, SlotStep, Claim, Load, Refuse, StartTurn, Decide, Throw,
           Store, Complete,
                Record, GiveBack,
                 Renew, SlotFault, actors
  <1>13. ASSUME NEW p \in Procs, SweepStep(p) \/ SweepFault(p) \/ Boot(p) PROVE coord' = coord
    BY <1>13 DEF SweepStep, SweepTurns, SweepSession, SweepFault, Boot
  <1>14. ASSUME Elsewhere PROVE coord' = coord
    BY <1>14 DEF Elsewhere, Progress, TurnExpires, WorkerStalls, actors
  <1>15. ASSUME NEW p \in Procs, CoordStep(p) \/ CoordFault(p) \/ Crash(p) PROVE CoordsGood'
    BY <1>5, <1>6, <1>8, <1>9, <1>15 DEF CoordStep
  <1>16. ASSUME NEW p \in Procs, ProcActs(p) PROVE CoordsGood'
    BY <1>10, <1>13, <1>15, <1>16 DEF ProcActs
  <1> QED
    BY <1>10, <1>11, <1>12, <1>14, <1>16, Actors DEF sessionVars

-----------------------------------------------------------------------------
(* Requests of members. *)
LEMMA MemberWritten ==
    ASSUME MembersGood, NEW m \in Members, NEW a, GoodMember(a), MemberTo(m, a) PROVE MembersGood'
  <1>1. a \in MemberRequest
    BY DEF GoodMember
  <1>2. member' \in [Members -> MemberRequest]
        /\ \A n \in Members : member'[n] = IF n = m THEN a ELSE member[n]
    BY <1>1 DEF MemberTo, MembersGood
  <1> QED
    BY <1>2 DEF MembersGood

LEMMA MembersStep == ASSUME SessionInv, [SessionNext]_sessionVars PROVE MembersGood'
  <1>0. MembersGood
    BY DEF SessionInv
  <1>1. GoodMember(IdleMember)
    BY DEF GoodMember, IdleMember, MemberRequest
  <1>2. ASSUME NEW m \in Members, Send(m) \/ ReadQuestion(m) \/ Cancel(m) PROVE MembersGood'
    <2>1. PICK s \in Sessions, pc \in {"queueing", "answering", "cancelling"}, trigger \in {"user", "answer"} :
            MemberTo(m, [pc |-> pc, s |-> s, trigger |-> trigger])
      BY <1>2 DEF Send, ReadQuestion, Cancel
    <2>2. GoodMember([pc |-> pc, s |-> s, trigger |-> trigger])
      BY DEF GoodMember, MemberRequest
    <2> QED
      BY <1>0, <2>1, <2>2, MemberWritten
  <1>3. ASSUME NEW m \in Members, RequestStep(m) \/ MemberFault(m) PROVE MembersGood'
    <2>1. \/ MemberTo(m, IdleMember)
          \/ member[m].pc = "answering" /\ MemberTo(m, [member[m] EXCEPT !.pc = "queueing"])
      BY <1>3 DEF RequestStep, Answer, QueueTurn, CancelTurns, MemberFault
    <2>2. ASSUME member[m].pc = "answering" PROVE GoodMember([member[m] EXCEPT !.pc = "queueing"])
      <3>1. GoodMember(member[m])
        BY <1>0 DEF MembersGood
      <3> QED
        BY <2>2, <3>1 DEF GoodMember, MemberRequest
    <2> QED
      BY <1>0, <1>1, <2>1, <2>2, MemberWritten
  <1>4. CASE member' = member
    BY <1>0, <1>4 DEF MembersGood
  <1>5. ASSUME NEW w \in Workers, SlotActs(w) PROVE member' = member
    BY <1>5 DEF SlotActs, SlotStep, Claim, Load, Refuse, StartTurn, Decide, Throw,
           Store, Complete,
                Record, GiveBack,
                Renew, SlotFault, actors
  <1>6. ASSUME NEW p \in Procs, ProcActs(p) PROVE member' = member
    BY <1>6 DEF ProcActs, CoordStep, SweepStep, List, Look, ListDone, Deny, Ask,
           WakeSession, QueueResume,
                CoordFault,
                SweepTurns, SweepSession, SweepFault, Crash, Boot
  <1>7. ASSUME Elsewhere PROVE member' = member
    BY <1>7 DEF Elsewhere, Progress, TurnExpires, WorkerStalls, actors
  <1>8. ASSUME NEW m \in Members, MemberActs(m) PROVE MembersGood'
    BY <1>2, <1>3, <1>8 DEF MemberActs
  <1> QED
    BY <1>4, <1>5, <1>6, <1>7, <1>8, Actors DEF sessionVars
-----------------------------------------------------------------------------
(* Things, sweeps, processes, bounds and the history. *)
LEMMA ThingsStep == ASSUME SessionInv, [SessionNext]_sessionVars PROVE ThingsGood'
  <1>0. ThingsGood
    BY DEF SessionInv
  <1>1. ASSUME NEW t \in Things, Progress(t) PROVE ThingsGood'
    BY <1>0, <1>1 DEF Progress, ThingsGood
  <1>2. CASE thing' = thing
    BY <1>0, <1>2 DEF ThingsGood
  <1>3. ASSUME NEW m \in Members, MemberActs(m) PROVE thing' = thing
    BY <1>3 DEF MemberActs, RequestStep, Send, ReadQuestion, Cancel, Answer, QueueTurn,
                CancelTurns, MemberFault, rows
  <1>4. ASSUME NEW w \in Workers, SlotActs(w) PROVE thing' = thing
    BY <1>4 DEF SlotActs, SlotStep, Claim, Load, Refuse, StartTurn, Decide, Throw,
           Store, Complete,
                Record, GiveBack,
                Renew, SlotFault, rows
  <1>5. ASSUME NEW p \in Procs, ProcActs(p) PROVE thing' = thing
    BY <1>5 DEF ProcActs, CoordStep, SweepStep, List, Look, ListDone, Deny, Ask,
           WakeSession, QueueResume,
                CoordFault,
                SweepTurns, SweepSession, SweepFault, Crash, Boot, rows
  <1>6. ASSUME Elsewhere PROVE ThingsGood'
    BY <1>1, <1>2, <1>6 DEF Elsewhere, TurnExpires, WorkerStalls
  <1> QED
    BY <1>2, <1>3, <1>4, <1>5, <1>6, Actors DEF sessionVars

LEMMA UpsetsStep == ASSUME SessionInv, [SessionNext]_sessionVars PROVE faults' \in 0..MaxFaults
  <1>0. faults \in 0..MaxFaults /\ MaxFaults \in Nat
    BY DEF SessionInv, RestGood, SessionAssumption
  <1>1. ASSUME faults' = faults \/ (faults < MaxFaults /\ faults' = faults + 1)
        PROVE  faults' \in 0..MaxFaults
    BY <1>0, <1>1
  <1> DEFINE Counts == faults' = faults \/ (faults < MaxFaults /\ faults' = faults + 1)
  <1>3. ASSUME NEW m \in Members, MemberActs(m) PROVE Counts
    BY <1>3 DEF MemberActs, RequestStep, Send, ReadQuestion, Cancel, Answer, QueueTurn,
                CancelTurns, MemberFault,
                bounds, Fault
  <1>4. ASSUME NEW w \in Workers, SlotActs(w) PROVE Counts
    BY <1>4 DEF SlotActs, SlotStep, Claim, Load, Refuse, StartTurn, Decide, Throw,
           Store, Complete,
                Record, GiveBack,
                Renew, SlotFault, bounds, Fault
  <1>5. ASSUME NEW p \in Procs, ProcActs(p) PROVE Counts
    BY <1>5 DEF ProcActs, CoordStep, SweepStep, List, Look, ListDone, Deny, Ask,
           WakeSession, QueueResume,
                CoordFault,
                SweepTurns, SweepSession, SweepFault, Crash, Boot, bounds, Fault
  <1>6. ASSUME Elsewhere PROVE Counts
    BY <1>6 DEF Elsewhere, Progress, TurnExpires, WorkerStalls, bounds, Fault
  <1>7. ASSUME UNCHANGED sessionVars PROVE Counts
    BY <1>7 DEF sessionVars
  <1>8. Counts
    <2> HIDE DEF Counts
    <2> QED
      BY <1>3, <1>4, <1>5, <1>6, <1>7, Actors
  <1> QED
    BY <1>1, <1>8

(* Only sessions are written to the history and to what a sweep has to do. *)
LEMMA CutStep == ASSUME SessionInv, [SessionNext]_sessionVars PROVE cut' \in SUBSET Sessions
  <1>0. cut \in SUBSET Sessions /\ sweep \in [Procs -> SUBSET Sessions]
    BY DEF SessionInv, RestGood
  <1>1. ASSUME NEW X \in SUBSET Sessions, cut' = cut \cup X PROVE cut' \in SUBSET Sessions
    BY <1>0, <1>1
  <1>2. ASSUME NEW s \in Sessions, cut' \in {cut, cut \cup {s}} PROVE cut' \in SUBSET Sessions
    BY <1>0, <1>2
  <1>3. CASE cut' = cut
    BY <1>0, <1>3
  <1>4. ASSUME NEW m \in Members, CancelTurns(m) \/ MemberFault(m)
          PROVE cut' \in SUBSET Sessions
    <2>1. member[m].s \in Sessions
      BY <1>4 DEF CancelTurns, MemberFault, SessionInv, MembersGood, GoodMember
    <2>2. cut' \in {cut, cut \cup {member[m].s}}
      BY <1>4 DEF CancelTurns, MemberFault
    <2> QED
      BY <1>2, <2>1, <2>2
  <1>5. ASSUME NEW w \in Workers, GiveBack(w) \/ SlotFault(w) PROVE cut' \in SUBSET Sessions
    <2>1. slot[w].s \in Sessions
      BY <1>5 DEF GiveBack, SlotFault, SessionInv, SlotsGood, GoodSlot
    <2>2. cut' \in {cut, cut \cup {slot[w].s}}
      BY <1>5 DEF GiveBack, SlotFault, ReturnTurn, Leave
    <2> QED
      BY <1>2, <2>1, <2>2
  <1>6. ASSUME NEW p \in Procs, CoordFault(p) PROVE cut' \in SUBSET Sessions
    <2>1. coord[p].pc = "queueing" => coord[p].s \in Sessions
      BY DEF SessionInv, CoordsGood, GoodCoord
    <2>2. cut' = IF coord[p].pc = "queueing" THEN cut \cup {coord[p].s} ELSE cut
      BY <1>6 DEF CoordFault
    <2> QED
      BY <1>0, <2>1, <2>2
  <1>7. ASSUME NEW p \in Procs, SweepFault(p) PROVE cut' \in SUBSET Sessions
    BY <1>0, <1>7 DEF SweepFault
  <1>8. ASSUME NEW p \in Procs, Crash(p) PROVE cut' \in SUBSET Sessions
    <2> DEFINE X == {s \in Sessions :
            \/ coord[p].pc = "queueing" /\ coord[p].s = s
            \/ /\ sessions[s].status = "running"
               /\ \E w \in Workers : /\ OwnerOf(w) = p /\ slot[w].pc # "idle" /\ slot[w].s = s
                                     /\ ~Owns(w) /\ ~Leaving(w)}
    <2>1. cut' = cut \cup sweep[p] \cup X /\ X \subseteq Sessions
      BY <1>8 DEF Crash
    <2> HIDE DEF X
    <2> QED
      BY <1>0, <2>1
  <1>9. ASSUME NEW m \in Members, Send(m) \/ ReadQuestion(m) \/ Cancel(m) \/ Answer(m) \/ QueueTurn(m)
        PROVE  cut' = cut
    BY <1>9 DEF Send, ReadQuestion, Cancel, Answer, QueueTurn, bounds
  <1>10. ASSUME NEW w \in Workers,
                \/ Claim(w) \/ Load(w) \/ Refuse(w) \/ StartTurn(w) \/ Decide(w) \/ Throw(w) \/ Store(w)
                \/ Complete(w) \/ Record(w) \/ Renew(w)
         PROVE  cut' = cut
    BY <1>10 DEF Claim, Load, Refuse, StartTurn, Decide, Throw, Store, Complete,
           Record, Renew, bounds
  <1>11. ASSUME NEW p \in Procs, CoordStep(p) \/ SweepStep(p) \/ Boot(p) PROVE cut' = cut
    BY <1>11 DEF CoordStep, SweepStep, List, Look, ListDone, Deny, Ask, WakeSession,
           QueueResume,
                 SweepTurns, SweepSession, Boot, bounds
  <1>12. ASSUME Elsewhere PROVE cut' = cut
    BY <1>12 DEF Elsewhere, Progress, TurnExpires, WorkerStalls, bounds
  <1>13. ASSUME NEW m \in Members, MemberActs(m) PROVE cut' \in SUBSET Sessions
    BY <1>3, <1>4, <1>9, <1>13 DEF MemberActs, RequestStep
  <1>14. ASSUME NEW w \in Workers, SlotActs(w) PROVE cut' \in SUBSET Sessions
    BY <1>3, <1>5, <1>10, <1>14 DEF SlotActs, SlotStep
  <1>15. ASSUME NEW p \in Procs, ProcActs(p) PROVE cut' \in SUBSET Sessions
    BY <1>3, <1>6, <1>7, <1>8, <1>11, <1>15 DEF ProcActs
  <1> QED
    BY <1>3, <1>12, <1>13, <1>14, <1>15, Actors DEF sessionVars

LEMMA ProcsStep ==
    ASSUME SessionInv, [SessionNext]_sessionVars
            PROVE (sweep \in [Procs -> SUBSET Sessions] /\ up \in SUBSET Procs)'
  <1>0. sweep \in [Procs -> SUBSET Sessions] /\ up \in SUBSET Procs
    BY DEF SessionInv, RestGood
  <1>1. ASSUME NEW p \in Procs, NEW X \in SUBSET Sessions, sweep' = [sweep EXCEPT ![p] = X]
        PROVE  sweep' \in [Procs -> SUBSET Sessions]
    BY <1>0, <1>1
  <1>2. ASSUME NEW p \in Procs, SweepTurns(p) PROVE sweep' \in [Procs -> SUBSET Sessions]
    <2>1. PICK X \in SUBSET Sessions : sweep' = [sweep EXCEPT ![p] = X]
      <3> DEFINE X == {s \in Sessions : \E i \in DOMAIN jobs[s] : Exhausted(jobs[s][i])}
      <3>1. sweep' = [sweep EXCEPT ![p] = X] /\ X \in SUBSET Sessions
        BY <1>2 DEF SweepTurns
      <3> QED
        BY <3>1
    <2> QED
      BY <1>1, <2>1
  <1>3. ASSUME NEW p \in Procs, SweepSession(p) PROVE sweep' \in [Procs -> SUBSET Sessions]
    BY <1>0, <1>1, <1>3 DEF SweepSession
  <1>4. ASSUME NEW p \in Procs, SweepFault(p) \/ Crash(p)
          PROVE sweep' \in [Procs -> SUBSET Sessions]
    BY <1>1, <1>4 DEF SweepFault, Crash
  <1>5. ASSUME NEW p \in Procs, CoordStep(p) \/ CoordFault(p) \/ SweepStep(p) \/ SweepFault(p)
        PROVE  up' = up
    BY <1>5 DEF CoordStep, SweepStep, List, Look, ListDone, Deny, Ask, WakeSession,
           QueueResume, CoordFault,
                SweepTurns, SweepSession, SweepFault
  <1>6. ASSUME NEW p \in Procs, Crash(p) \/ Boot(p) PROVE up' \in SUBSET Procs
    BY <1>0, <1>6 DEF Crash, Boot
  <1>7. ASSUME NEW p \in Procs, CoordStep(p) \/ CoordFault(p) \/ Boot(p) PROVE sweep' = sweep
    BY <1>7 DEF CoordStep, List, Look, ListDone, Deny, Ask, WakeSession, QueueResume,
           CoordFault, Boot
  <1>8. ASSUME NEW m \in Members, MemberActs(m) PROVE sweep' = sweep /\ up' = up
    BY <1>8 DEF MemberActs, RequestStep, Send, ReadQuestion, Cancel, Answer, QueueTurn,
                CancelTurns, MemberFault
  <1>9. ASSUME NEW w \in Workers, SlotActs(w) PROVE sweep' = sweep /\ up' = up
    BY <1>9 DEF SlotActs, SlotStep, Claim, Load, Refuse, StartTurn, Decide, Throw,
           Store, Complete,
                Record, GiveBack,
                Renew, SlotFault, actors
  <1>10. ASSUME Elsewhere PROVE sweep' = sweep /\ up' = up
    BY <1>10 DEF Elsewhere, Progress, TurnExpires, WorkerStalls, actors
  <1>11. ASSUME NEW p \in Procs, ProcActs(p)
         PROVE  (sweep \in [Procs -> SUBSET Sessions] /\ up \in SUBSET Procs)'
    <2> USE DEF ProcActs
    <2>1. up' \in SUBSET Procs
      BY <1>0, <1>5, <1>6, <1>11
    <2>2. sweep' \in [Procs -> SUBSET Sessions]
      BY <1>0, <1>2, <1>3, <1>4, <1>7, <1>11 DEF SweepStep
    <2> QED
      BY <2>1, <2>2
  <1>12. ASSUME sweep' = sweep /\ up' = up
         PROVE  (sweep \in [Procs -> SUBSET Sessions] /\ up \in SUBSET Procs)'
    BY <1>0, <1>12
  <1> QED
    BY <1>8, <1>9, <1>10, <1>11, <1>12, Actors DEF sessionVars

LEMMA SessionStep == SessionInv /\ [SessionNext]_sessionVars => SessionInv'
  <1> SUFFICES ASSUME SessionInv, [SessionNext]_sessionVars PROVE SessionInv'
    OBVIOUS
  <1>1. RestGood'
    BY UpsetsStep, CutStep, ProcsStep DEF RestGood
  <1>2. SessionAssumption'
    BY DEF SessionInv, SessionAssumption
  <1> QED
    BY <1>1, <1>2, SessionsStep, TurnsStep, ThingsStep, SlotsStep, CoordsStep, MembersStep DEF
                SessionInv

LEMMA SessionInductive == SessionSpec => []SessionInv
  BY SessionInitial, SessionStep, PTL DEF SessionSpec

(* The rows of the server's sessions, turns and workers stay in their types, *)
(* a turn is executed at most max_attempts times, and a session that waits *)
(* says for what (workbench.ts, agent-jobs.ts), for any number of sessions,*)
(* members, workers and slots.                                             *)
THEOREM SessionTypeCorrect == SessionSpec => []SessionTypeOK
  <1>1. SessionInv => SessionTypeOK
    <2> SUFFICES ASSUME SessionInv PROVE SessionTypeOK
      OBVIOUS
    <2>1. \A s \in Sessions : \A i \in DOMAIN jobs[s] : jobs[s][i] \in TurnJob
      BY TurnsHeld DEF SessionInv
    <2>2. sessions \in [Sessions -> AgentSession]
          /\ \A s \in Sessions :
                /\ sessions[s].status = "waiting_user" => sessions[s].waiting = Question
                /\ sessions[s].status = "waiting_job" => sessions[s].waiting \in Things
      BY DEF SessionInv, SessionsGood, GoodSession
    <2> QED
      BY <2>1, <2>2 DEF SessionTypeOK, SessionInv, AgentSession, AgentStatus, TurnJob, ThingsGood,
             SlotsGood,
         AgentSlot, CoordsGood, AgentCoord, MembersGood, MemberRequest, RestGood
  <1> QED
    BY <1>1, SessionInductive, PTL

-----------------------------------------------------------------------------
(* A slot goes to work with Start only, which looks at the cancellation.   *)
Begun == \A w \in Workers : slot[w].pc # "working" /\ slot'[w].pc = "working" =>
             ~sessions[slot[w].s].cancelled

LEMMA BegunStep == ASSUME SessionInv, [SessionNext]_sessionVars PROVE Begun
  <1>0. slot \in [Workers -> AgentSlot]
    BY DEF SessionInv, SlotsGood
  <1>1. CASE slot' = slot
    BY <1>1 DEF Begun
  <1>2. ASSUME NEW w \in Workers, slot'[w].pc # "working",
               \A v \in Workers \ {w} : slot'[v] = slot[v]
        PROVE  Begun
    BY <1>2 DEF Begun
  <1>3. ASSUME NEW w \in Workers, StartTurn(w) PROVE Begun
    <2>1. ~sessions[slot[w].s].cancelled /\ \A v \in Workers \ {w} : slot'[v] = slot[v]
      BY <1>0, <1>3 DEF StartTurn, MayStart, SlotTo
    <2> QED
      BY <2>1 DEF Begun
  <1>4. ASSUME NEW w \in Workers,
               \/ Claim(w) \/ Load(w) \/ Refuse(w) \/ Decide(w) \/ Throw(w)
               \/ Store(w) \/ Complete(w) \/ Record(w) \/ GiveBack(w) \/ SlotFault(w)
        PROVE  Begun
    <2>1. slot[w] \in AgentSlot
      BY <1>0
    <2>2. \A v \in Workers \ {w} : slot'[v] = slot[v]
      BY <1>0, <1>4 DEF Claim, Load, Refuse, Decide, Throw, Store, Complete,
             Record, GiveBack,
                        SlotFault, SlotAt, SlotTo
    <2>3. slot'[w].pc # "working"
      <3>1. CASE Claim(w)
        BY <1>0, <3>1 DEF Claim, IdleSlot, SlotTo
      <3>2. CASE Load(w) \/ Refuse(w)
        BY <1>0, <2>1, <3>2, ZenonT(40) DEF Load, Refuse, AgentSlot, SlotTo
      <3>3. CASE Decide(w) \/ Throw(w)
        BY <1>0, <2>1, <3>3, ZenonT(40) DEF Decide, Throw, AgentSlot, SlotTo
      <3>4. CASE Store(w) \/ Record(w)
        BY <1>0, <2>1, <3>4, ZenonT(40) DEF Store, Record, SlotAt, AgentSlot, SlotTo
      <3>5. CASE SlotFault(w)
        BY <1>0, <2>1, <3>5 DEF SlotFault, SlotAt, AgentSlot, IdleSlot, SlotTo
      <3>6. CASE Complete(w) \/ GiveBack(w)
        BY <1>0, <3>6 DEF Complete, GiveBack, IdleSlot, SlotTo
      <3> QED
        BY <1>4, <3>1, <3>2, <3>3, <3>4, <3>5, <3>6
    <2> QED
      BY <1>2, <2>2, <2>3
  <1>5. ASSUME NEW p \in Procs, Crash(p) PROVE Begun
    BY <1>5 DEF Crash, Begun, IdleSlot
  <1>6. ASSUME NEW m \in Members, MemberActs(m) PROVE slot' = slot
    BY <1>6 DEF MemberActs, RequestStep, Send, ReadQuestion, Cancel, Answer, QueueTurn,
                CancelTurns, MemberFault
  <1>7. ASSUME NEW p \in Procs, CoordStep(p) \/ CoordFault(p) \/ SweepStep(p) \/ SweepFault(p) \/ Boot(p)
        PROVE  slot' = slot
    BY <1>7 DEF CoordStep, SweepStep, List, Look, ListDone, Deny, Ask, WakeSession,
           QueueResume, CoordFault,
                SweepTurns, SweepSession, SweepFault, Boot
  <1>8. ASSUME \/ Elsewhere
               \/ \E w \in Workers : Renew(w)
        PROVE  slot' = slot
    BY <1>8 DEF Elsewhere, Progress, TurnExpires, WorkerStalls, Renew, actors
  <1>9. ASSUME NEW w \in Workers, SlotActs(w) PROVE Begun
    BY <1>1, <1>3, <1>4, <1>8, <1>9 DEF SlotActs, SlotStep
  <1>10. ASSUME NEW p \in Procs, ProcActs(p) PROVE Begun
    BY <1>1, <1>5, <1>7, <1>10 DEF ProcActs
  <1> QED
    BY <1>1, <1>6, <1>8, <1>9, <1>10, Actors DEF sessionVars

(* visibility-measurement-v2.md:71: no turn stores its outcome over the    *)
(* cancellation of its session, and none is begun after it.                *)
THEOREM CancelSafe == SessionSpec => CancelHolds
  <1> DEFINE Kept == /\ \A s \in Sessions : sessions'[s].cancelled =>
                            sessions'[s].status \notin {"idle", "done", "waiting_job"}
                     /\ \A w \in Workers : slot[w].pc # "working" /\ slot'[w].pc = "working" =>
                            ~sessions[slot[w].s].cancelled
  <1>1. SessionInv /\ SessionInv' /\ [SessionNext]_sessionVars => [Kept]_sessionVars
    <2> SUFFICES ASSUME SessionInv, SessionInv', [SessionNext]_sessionVars PROVE Kept
      OBVIOUS
    <2>1. \A s \in Sessions : sessions'[s].cancelled =>
              sessions'[s].status \notin {"idle", "done", "waiting_job"}
      BY DEF SessionInv, SessionsGood, GoodSession
    <2> QED
      BY <2>1, BegunStep DEF Begun
  <1>2. SessionSpec => [][Kept]_sessionVars
    BY <1>1, SessionStep, SessionInductive, PTL DEF SessionSpec
  <1> QED
    BY <1>2 DEF CancelHolds

-----------------------------------------------------------------------------
(***************************************************************************)
(* Nobody is left running with nobody to end it.  A turn that is open has  *)
(* somebody, unless its slot, or a neighbour with the same name, is about  *)
(* to end it without a word about the session; then the session is not     *)
(* running, or something else has set it running and sees to it.  For this *)
(* it matters that a turn with an owner is leased, and that the turn of a  *)
(* slot exists.                                                            *)
(***************************************************************************)
TurnsOwned == \A s \in Sessions : \A i \in DOMAIN jobs[s] :
    jobs[s][i].owner # Nobody => jobs[s][i].status = "leased"
SlotsHold == \A w \in Workers : slot[w].pc # "idle" => slot[w].turn \in DOMAIN jobs[slot[w].s]

ServedInv == SessionInv /\ TurnsOwned /\ SlotsHold /\ RunningIsServed

(* What a single write leaves behind. *)
LEMMA Written ==
    ASSUME SessionInv
    PROVE  /\ \A z \in Sessions, s \in Sessions : \A row :
                WriteSession(z, row) => sessions'[s] = IF s = z THEN row ELSE sessions[s]
           /\ \A w \in Workers, v \in Workers : \A a :
                SlotTo(w, a) => slot'[v] = IF v = w THEN a ELSE slot[v]
           /\ \A p \in Procs, q \in Procs : \A a :
                CoordTo(p, a) => coord'[q] = IF q = p THEN a ELSE coord[q]
           /\ \A m \in Members, n \in Members : \A a :
                MemberTo(m, a) => member'[n] = IF n = m THEN a ELSE member[n]
  <1>1. DOMAIN sessions = Sessions /\ DOMAIN slot = Workers /\ DOMAIN coord = Procs
        /\ DOMAIN member = Members
    BY DEF SessionInv, SessionsGood, SlotsGood, CoordsGood, MembersGood
  <1> QED
    BY <1>1 DEF WriteSession, SlotTo, CoordTo, MemberTo

LEMMA TurnWrittenAt ==
    ASSUME SessionInv, NEW z \in Sessions, NEW i \in DOMAIN jobs[z], NEW t, WriteTurn(z, i, t)
    PROVE  /\ \A s \in Sessions : DOMAIN jobs'[s] = DOMAIN jobs[s]
           /\ \A s \in Sessions \ {z} : jobs'[s] = jobs[s]
           /\ \A k \in DOMAIN jobs[z] : jobs'[z][k] = IF k = i THEN t ELSE jobs[z][k]
  <1>1. DOMAIN jobs = Sessions
    BY DEF SessionInv, TurnsGood
  <1>2. jobs'[z] = [jobs[z] EXCEPT ![i] = t] /\ \A s \in Sessions \ {z} : jobs'[s] = jobs[s]
    BY <1>1 DEF WriteTurn
  <1> QED
    BY <1>2

LEMMA TurnQueuedAt ==
    ASSUME SessionInv, NEW z \in Sessions, NEW trigger, Enqueue(z, trigger)
    PROVE  /\ \A s \in Sessions \ {z} : jobs'[s] = jobs[s]
           /\ \A k \in DOMAIN jobs[z] : k \in DOMAIN jobs'[z] /\ jobs'[z][k] = jobs[z][k]
           /\ \E j \in DOMAIN jobs'[z] \ DOMAIN jobs[z] :
                /\ jobs'[z][j] = [trigger |-> trigger, status |-> "pending", owner |-> Nobody,
                                  live |-> FALSE, attempts |-> 0]
                /\ DOMAIN jobs'[z] = DOMAIN jobs[z] \cup {j}
  <1> DEFINE t == [trigger |-> trigger, status |-> "pending", owner |-> Nobody, live |-> FALSE,
                   attempts |-> 0]
             j == Len(jobs[z]) + 1
  <1>1. jobs \in [Sessions -> Seq(TurnJob)]
    BY DEF SessionInv, TurnsGood
  <1>2. jobs'[z] = Append(jobs[z], t) /\ \A s \in Sessions \ {z} : jobs'[s] = jobs[s]
    BY <1>1 DEF Enqueue
  <1>3. /\ Len(jobs[z]) \in Nat /\ DOMAIN jobs[z] = 1..Len(jobs[z])
        /\ jobs[z] \in Seq(TurnJob)
    BY <1>1
  <1> HIDE DEF t
  <1>4. /\ DOMAIN jobs'[z] = 1..j /\ jobs'[z][j] = t
        /\ \A k \in DOMAIN jobs[z] : jobs'[z][k] = jobs[z][k]
    BY <1>2, <1>3
  <1>5. 1..j = 1..Len(jobs[z]) \cup {j} /\ j \notin 1..Len(jobs[z]) /\ j \in 1..j
    BY <1>3
  <1> USE DEF t
  <1> QED
    BY <1>2, <1>3, <1>4, <1>5

-----------------------------------------------------------------------------
(* What a step that does not concern a session leaves as it is, or, of its *)
(* slots, leaving it.                                                      *)
SameTurns(s) == \A i \in DOMAIN jobs[s] :
    /\ i \in DOMAIN jobs'[s]
    /\ jobs'[s][i].status = jobs[s][i].status /\ jobs'[s][i].owner = jobs[s][i].owner
    /\ jobs'[s][i].attempts = jobs[s][i].attempts
Away(w, s) == slot[w].pc = "idle" \/ slot[w].s # s
Stays(w, s) ==
    \/ slot'[w] = slot[w]
    \/ Away(w, s) /\ Away(w, s)'
    \/ /\ Leaving(w) /\ Leaving(w)' /\ slot[w].pc # "idle"
       /\ slot'[w].s = slot[w].s /\ slot'[w].turn = slot[w].turn
Undisturbed(s) ==
    /\ sessions'[s].status = "running" => sessions[s].status = "running"
    /\ sessions'[s].cancelled = sessions[s].cancelled
    /\ SameTurns(s)
    /\ \A w \in Workers : Stays(w, s)
    /\ Queueing(s) => Queueing(s)'
    /\ \A p \in Procs : s \in sweep[p] => s \in sweep'[p]

SafeAfter(s) == sessions'[s].status = "running" => s \in cut' \/ Served(s)'

LEMMA ServingStays ==
    ASSUME NEW s \in Sessions, NEW i \in DOMAIN jobs[s], Undisturbed(s), Serving(s, i)
    PROVE  i \in DOMAIN jobs'[s] /\ Serving(s, i)'
  <1>1. i \in DOMAIN jobs'[s] /\ Open(jobs'[s][i])
        /\ (jobs'[s][i].status = "pending" => jobs'[s][i].attempts < MaxAttempts)
    BY DEF Undisturbed, SameTurns, Serving, Open
  <1>2. ASSUME NEW w \in Workers, slot'[w].pc # "idle", slot'[w].s = s, slot'[w].turn = i,
               jobs'[s][i].owner = OwnerOf(w), Leaving(w)'
        PROVE  FALSE
    <2>1. jobs[s][i].owner = OwnerOf(w)
      BY <1>2 DEF Undisturbed, SameTurns
    <2>2. slot[w].pc # "idle" /\ slot[w].s = s /\ slot[w].turn = i /\ Leaving(w)
      <3>1. CASE slot'[w] = slot[w]
        BY <1>2, <3>1 DEF Undisturbed, Leaving
      <3>2. CASE slot'[w] # slot[w]
        BY <1>2, <3>2 DEF Undisturbed, Stays, Away
      <3> QED
        BY <3>1, <3>2
    <2> QED
      BY <2>1, <2>2 DEF Serving, Owns, Turn
  <1> QED
    BY <1>1, <1>2 DEF Serving, Owns, Turn

LEMMA ServedStays ==
    ASSUME NEW s \in Sessions, RunningIsServed, cut \subseteq cut', Undisturbed(s)
    PROVE  SafeAfter(s)
  <1> SUFFICES ASSUME Served(s) PROVE Served(s)'
    BY DEF RunningIsServed, SafeAfter, Undisturbed
  <1>1. CASE Queueing(s)
    BY <1>1 DEF Undisturbed, Served
  <1>2. CASE \E i \in DOMAIN jobs[s] : Serving(s, i)
    BY <1>2, ServingStays DEF Served
  <1>3. ASSUME NEW w \in Workers, slot[w].pc # "idle", slot[w].s = s, ~Leaving(w)
        PROVE  Served(s)'
    <2>1. slot'[w] = slot[w]
      BY <1>3 DEF Undisturbed, Stays, Away
    <2>2. ~Leaving(w)'
      BY <1>3, <2>1 DEF Undisturbed, Leaving
    <2> QED
      BY <1>3, <2>1, <2>2 DEF Served
  <1>4. CASE \E p \in Procs : s \in sweep[p]
    BY <1>4 DEF Undisturbed, Served
  <1> QED
    BY <1>1, <1>2, <1>3, <1>4 DEF Served

LEMMA CutGrows == ASSUME [SessionNext]_sessionVars PROVE cut \subseteq cut'
  <1>1. ASSUME NEW m \in Members, MemberActs(m) PROVE cut \subseteq cut'
    BY <1>1 DEF MemberActs, RequestStep, Send, ReadQuestion, Cancel, Answer, QueueTurn, CancelTurns,
                MemberFault, bounds
  <1>2. ASSUME NEW w \in Workers, SlotActs(w) PROVE cut \subseteq cut'
    BY <1>2 DEF SlotActs, SlotStep, Claim, Load, Refuse, StartTurn, Decide, Throw, Store, Complete,
                Record, GiveBack, ReturnTurn, Leave, Renew, SlotFault, bounds
  <1>3. ASSUME NEW p \in Procs, ProcActs(p) PROVE cut \subseteq cut'
    BY <1>3 DEF ProcActs, CoordStep, SweepStep, List, Look, ListDone, Deny, Ask, WakeSession,
                QueueResume, CoordFault, SweepTurns, SweepSession, SweepFault, Crash, Boot, bounds
  <1>4. CASE Elsewhere
    BY <1>4 DEF Elsewhere, Progress, TurnExpires, WorkerStalls, bounds
  <1> QED
    BY <1>1, <1>2, <1>3, <1>4, Actors DEF sessionVars

-----------------------------------------------------------------------------
(* Turns with an owner are leased, and turns are never removed. *)
TurnsKept == \A s \in Sessions : DOMAIN jobs[s] \subseteq DOMAIN jobs'[s]

LEMMA TurnsReplacedSafe ==
    ASSUME TurnsOwned,
           \A s \in Sessions : /\ DOMAIN jobs'[s] = DOMAIN jobs[s]
                               /\ \A i \in DOMAIN jobs[s] :
                                    \/ jobs'[s][i] = jobs[s][i]
                                    \/ jobs'[s][i].owner = Nobody \/ jobs'[s][i].status = "leased"
    PROVE  TurnsOwned' /\ TurnsKept
  BY DEF TurnsOwned, TurnsKept

LEMMA TurnsOwnedStep ==
    ASSUME SessionInv, TurnsOwned, SlotsHold, [SessionNext]_sessionVars PROVE TurnsOwned' /\ TurnsKept
  <1>1. ASSUME NEW z \in Sessions, NEW i \in DOMAIN jobs[z], NEW t, WriteTurn(z, i, t),
               t.owner = Nobody \/ t.status = "leased"
        PROVE  TurnsOwned' /\ TurnsKept
    BY <1>1, TurnWrittenAt, TurnsReplacedSafe
  <1>2. ASSUME NEW z \in Sessions, NEW trigger, Enqueue(z, trigger) PROVE TurnsOwned' /\ TurnsKept
    <2>1. PICK j \in DOMAIN jobs'[z] \ DOMAIN jobs[z] :
            /\ jobs'[z][j].owner = Nobody
            /\ DOMAIN jobs'[z] = DOMAIN jobs[z] \cup {j}
      <3>1. PICK j \in DOMAIN jobs'[z] \ DOMAIN jobs[z] :
                /\ jobs'[z][j] = [trigger |-> trigger, status |-> "pending", owner |-> Nobody,
                                  live |-> FALSE, attempts |-> 0]
                /\ DOMAIN jobs'[z] = DOMAIN jobs[z] \cup {j}
        BY <1>2, TurnQueuedAt
      <3>2. jobs'[z][j].owner = Nobody
        BY <3>1
      <3> QED
        BY <3>1, <3>2
    <2>2. /\ \A s \in Sessions \ {z} : jobs'[s] = jobs[s]
          /\ \A k \in DOMAIN jobs[z] : jobs'[z][k] = jobs[z][k]
      BY <1>2, TurnQueuedAt
    <2> QED
      BY <2>1, <2>2 DEF TurnsOwned, TurnsKept
  <1>3. CASE UNCHANGED jobs
    BY <1>3 DEF TurnsOwned, TurnsKept
  <1>4. \A s \in Sessions : \A i \in DOMAIN jobs[s] : jobs[s][i] \in TurnJob
    BY TurnsHeld DEF SessionInv
  <1>5. ASSUME NEW z \in Sessions, NEW i \in DOMAIN jobs[z]
        PROVE  /\ \A b \in BOOLEAN : [jobs[z][i] EXCEPT !.live = b].owner = jobs[z][i].owner
               /\ \A b \in BOOLEAN : [jobs[z][i] EXCEPT !.live = b].status = jobs[z][i].status
               /\ \A st : [jobs[z][i] EXCEPT !.status = st, !.owner = Nobody, !.live = FALSE].owner = Nobody
               /\ \A o, n : [jobs[z][i] EXCEPT !.status = "leased", !.owner = o, !.live = TRUE,
                                               !.attempts = n].status = "leased"
    BY <1>4 DEF TurnJob
  <1>6. ASSUME NEW w \in Workers, slot[w].pc # "idle"
        PROVE  slot[w].s \in Sessions /\ slot[w].turn \in DOMAIN jobs[slot[w].s]
    BY <1>6 DEF SlotsHold, SessionInv, SlotsGood, GoodSlot
  <1>7. ASSUME NEW w \in Workers, SlotActs(w) PROVE TurnsOwned' /\ TurnsKept
    <2>1. CASE Claim(w)
      <3>1. PICK s \in Sessions : \E i \in DOMAIN jobs[s] :
                WriteTurn(s, i, [jobs[s][i] EXCEPT !.status = "leased", !.owner = OwnerOf(w), !.live = TRUE,
                                                   !.attempts = jobs[s][i].attempts + 1])
        BY <2>1 DEF Claim
      <3>2. PICK i \in DOMAIN jobs[s] :
                WriteTurn(s, i, [jobs[s][i] EXCEPT !.status = "leased", !.owner = OwnerOf(w), !.live = TRUE,
                                                   !.attempts = jobs[s][i].attempts + 1])
        BY <3>1
      <3> DEFINE t == [jobs[s][i] EXCEPT !.status = "leased", !.owner = OwnerOf(w), !.live = TRUE,
                                         !.attempts = jobs[s][i].attempts + 1]
      <3>3. t.status = "leased"
        BY <1>5
      <3>4. WriteTurn(s, i, t)
        BY <3>2
      <3> HIDE DEF t
      <3> QED
        BY <1>1, <3>3, <3>4
    <2>2. CASE Renew(w)
      <3>1. TurnsOwned /\ slot[w].pc # "idle"
            /\ WriteTurn(slot[w].s, slot[w].turn, [jobs[slot[w].s][slot[w].turn] EXCEPT !.live = TRUE])
            /\ jobs[slot[w].s][slot[w].turn].status = "leased"
        BY <2>2 DEF Renew, Turn
      <3> DEFINE t == [jobs[slot[w].s][slot[w].turn] EXCEPT !.live = TRUE]
      <3>2. t.status = "leased"
        BY <1>5, <1>6, <3>1
      <3>3. WriteTurn(slot[w].s, slot[w].turn, t)
        BY <3>1
      <3> HIDE DEF t
      <3> QED
        BY <1>1, <1>6, <3>1, <3>2, <3>3
    <2>3. CASE Complete(w)
      <3>1. CASE UNCHANGED jobs
        BY <1>3, <3>1
      <3>2. CASE WriteTurn(slot[w].s, slot[w].turn,
                    [jobs[slot[w].s][slot[w].turn] EXCEPT !.status = "complete", !.owner = Nobody, !.live = FALSE])
        <4> DEFINE t == [jobs[slot[w].s][slot[w].turn] EXCEPT !.status = "complete", !.owner = Nobody,
                                                              !.live = FALSE]
        <4>1. slot[w].pc # "idle" /\ WriteTurn(slot[w].s, slot[w].turn, t)
          BY <2>3, <3>2 DEF Complete
        <4>2. t.owner = Nobody
          BY <1>5, <1>6, <4>1
        <4> HIDE DEF t
        <4> QED
          BY <1>1, <1>6, <4>1, <4>2
      <3> QED
        BY <2>3, <3>1, <3>2 DEF Complete, Turn
    <2>4. CASE GiveBack(w)
      <3>1. CASE UNCHANGED jobs
        BY <1>3, <3>1
      <3>2. CASE \E st : WriteTurn(slot[w].s, slot[w].turn,
                    [jobs[slot[w].s][slot[w].turn] EXCEPT !.status = st, !.owner = Nobody, !.live = FALSE])
        <4>1. PICK st : WriteTurn(slot[w].s, slot[w].turn,
                    [jobs[slot[w].s][slot[w].turn] EXCEPT !.status = st, !.owner = Nobody, !.live = FALSE])
          BY <3>2
        <4> DEFINE t == [jobs[slot[w].s][slot[w].turn] EXCEPT !.status = st, !.owner = Nobody,
                                                              !.live = FALSE]
        <4>2. slot[w].pc # "idle" /\ WriteTurn(slot[w].s, slot[w].turn, t)
          BY <2>4, <4>1 DEF GiveBack
        <4>3. t.owner = Nobody
          BY <1>5, <1>6, <4>2
        <4> HIDE DEF t
        <4> QED
          BY <1>1, <1>6, <4>2, <4>3
      <3> QED
        BY <2>4, <3>1, <3>2 DEF GiveBack, ReturnTurn, Turn
    <2>5. CASE UNCHANGED jobs
      BY <1>3, <2>5
    <2> QED
      BY <1>7, <2>1, <2>2, <2>3, <2>4, <2>5
      DEF SlotActs, SlotStep, Load, Refuse, StartTurn, Decide, Throw, Store, Record, SlotFault, rows
  <1>8. ASSUME NEW m \in Members, MemberActs(m) PROVE TurnsOwned' /\ TurnsKept
    <2>1. CASE QueueTurn(m)
      <3>1. member[m].s \in Sessions
        BY <2>1 DEF QueueTurn, SessionInv, MembersGood, GoodMember
      <3> QED
        BY <1>2, <2>1, <3>1 DEF QueueTurn
    <2>2. CASE CancelTurns(m)
      <3>1. jobs' = [jobs EXCEPT ![member[m].s] = [i \in DOMAIN jobs[member[m].s] |->
                IF ~Open(jobs[member[m].s][i]) THEN jobs[member[m].s][i]
                ELSE [jobs[member[m].s][i] EXCEPT !.status = "failed", !.owner = Nobody, !.live = FALSE]]]
        BY <2>2 DEF CancelTurns
      <3>2. DOMAIN jobs = Sessions
        BY DEF SessionInv, TurnsGood
      <3> DEFINE z == member[m].s
      <3>3. z \in Sessions
        BY <2>2 DEF CancelTurns, SessionInv, MembersGood, GoodMember
      <3>4. /\ \A s \in Sessions \ {z} : jobs'[s] = jobs[s]
            /\ jobs'[z] = [i \in DOMAIN jobs[z] |->
                IF ~Open(jobs[z][i]) THEN jobs[z][i]
                ELSE [jobs[z][i] EXCEPT !.status = "failed", !.owner = Nobody, !.live = FALSE]]
        BY <3>1, <3>2, <3>3
      <3> HIDE DEF z
      <3>5. ASSUME NEW i \in DOMAIN jobs[z]
            PROVE  jobs'[z][i] = jobs[z][i] \/ jobs'[z][i].owner = Nobody
        <4>1. jobs'[z][i] = IF ~Open(jobs[z][i]) THEN jobs[z][i]
                ELSE [jobs[z][i] EXCEPT !.status = "failed", !.owner = Nobody, !.live = FALSE]
          BY <3>4
        <4>2. [jobs[z][i] EXCEPT !.status = "failed", !.owner = Nobody, !.live = FALSE].owner = Nobody
          BY <1>5, <3>3
        <4> QED
          BY <4>1, <4>2
      <3>6. DOMAIN jobs'[z] = DOMAIN jobs[z]
        BY <3>4
      <3> QED
        BY <3>4, <3>5, <3>6, TurnsReplacedSafe
    <2>3. CASE UNCHANGED jobs
      BY <1>3, <2>3
    <2> QED
      BY <1>8, <2>1, <2>2, <2>3
      DEF MemberActs, RequestStep, Send, ReadQuestion, Cancel, Answer, MemberFault, rows
  <1>9. ASSUME NEW p \in Procs, ProcActs(p) PROVE TurnsOwned' /\ TurnsKept
    <2>1. CASE QueueResume(p)
      <3>1. coord[p].s \in Sessions
        BY <2>1 DEF QueueResume, SessionInv, CoordsGood, GoodCoord
      <3> QED
        BY <1>2, <2>1, <3>1 DEF QueueResume
    <2>2. CASE SweepTurns(p)
      <3>1. jobs' = [s \in Sessions |-> [i \in DOMAIN jobs[s] |->
                IF ~Exhausted(jobs[s][i]) THEN jobs[s][i]
                ELSE [jobs[s][i] EXCEPT !.status = "failed", !.owner = Nobody, !.live = FALSE]]]
        BY <2>2 DEF SweepTurns
      <3> QED
        BY <1>5, <3>1, TurnsReplacedSafe
    <2>3. CASE UNCHANGED jobs
      BY <1>3, <2>3
    <2> QED
      BY <1>9, <2>1, <2>2, <2>3
      DEF ProcActs, CoordStep, SweepStep, List, Look, ListDone, Deny, Ask, WakeSession, CoordFault,
          SweepSession, SweepFault, Crash, Boot, rows
  <1>10. CASE Elsewhere
    <2>1. CASE UNCHANGED jobs
      BY <1>3, <2>1
    <2>2. ASSUME NEW s \in Sessions, NEW i \in DOMAIN jobs[s], Lapse(s, i) PROVE TurnsOwned' /\ TurnsKept
      <3>1. WriteTurn(s, i, [jobs[s][i] EXCEPT !.live = FALSE])
        BY <2>2 DEF Lapse
      <3> DEFINE t == [jobs[s][i] EXCEPT !.live = FALSE]
      <3>2. t.owner = jobs[s][i].owner /\ t.status = jobs[s][i].status
        BY <1>5
      <3>3. WriteTurn(s, i, t) /\ (t.owner = Nobody \/ t.status = "leased")
        BY <3>1, <3>2 DEF TurnsOwned
      <3> HIDE DEF t
      <3> QED
        BY <1>1, <3>3
    <2> QED
      BY <1>10, <2>1, <2>2 DEF Elsewhere, Progress, TurnExpires, WorkerStalls
  <1> QED
    BY <1>3, <1>7, <1>8, <1>9, <1>10, Actors DEF sessionVars

LEMMA SlotsHoldStep ==
    ASSUME SessionInv, SessionInv', SlotsHold, TurnsKept, [SessionNext]_sessionVars PROVE SlotsHold'
  <1>1. \A w \in Workers : slot[w].pc # "idle" => slot[w].s \in Sessions
    BY DEF SessionInv, SlotsGood, GoodSlot
  <1>2. ASSUME \A w \in Workers : \/ slot'[w].pc = "idle"
                                  \/ /\ slot[w].pc # "idle"
                                     /\ slot'[w].s = slot[w].s /\ slot'[w].turn = slot[w].turn
        PROVE  SlotsHold'
    BY <1>1, <1>2 DEF SlotsHold, TurnsKept
  <1>3. CASE slot' = slot
    BY <1>2, <1>3
  <1>4. ASSUME NEW w \in Workers, SlotActs(w) PROVE SlotsHold'
    <2>1. CASE Claim(w)
      <3>0. PICK s \in Sessions : \E i \in DOMAIN jobs[s] :
                SlotTo(w, [IdleSlot EXCEPT !.pc = "loading", !.s = s, !.turn = i,
                                           !.attempt = jobs[s][i].attempts + 1])
        BY <2>1 DEF Claim
      <3>1. PICK i \in DOMAIN jobs[s] :
                SlotTo(w, [IdleSlot EXCEPT !.pc = "loading", !.s = s, !.turn = i,
                                           !.attempt = jobs[s][i].attempts + 1])
        BY <3>0
      <3> DEFINE a == [IdleSlot EXCEPT !.pc = "loading", !.s = s, !.turn = i,
                                       !.attempt = jobs[s][i].attempts + 1]
      <3>2. a.s = s /\ a.turn = i
        BY DEF IdleSlot
      <3> HIDE DEF a
      <3>3. \A v \in Workers : slot'[v] = IF v = w THEN a ELSE slot[v]
        BY <3>1, Written DEF a
      <3>4. \A v \in Workers \ {w} : slot[v].pc # "idle" => slot[v].turn \in DOMAIN jobs'[slot[v].s]
        BY <1>1 DEF SlotsHold, TurnsKept
      <3>5. a.turn \in DOMAIN jobs'[a.s]
        BY <3>2 DEF TurnsKept
      <3> QED
        BY <3>3, <3>4, <3>5 DEF SlotsHold
    <2>2. ASSUME NEW a, SlotTo(w, a), slot[w].pc # "idle", a.s = slot[w].s, a.turn = slot[w].turn
          PROVE  SlotsHold'
      BY <1>2, <2>2, Written
    <2>3. ASSUME NEW a, SlotTo(w, a), a.pc = "idle" PROVE SlotsHold'
      <3>1. \A v \in Workers : slot'[v] = IF v = w THEN a ELSE slot[v]
        BY <2>3, Written
      <3> QED
        BY <1>2, <2>3, <3>1
    <2>4. slot[w] \in AgentSlot /\ IdleSlot.pc = "idle"
      BY DEF SessionInv, SlotsGood, IdleSlot
    <2>5. CASE Load(w)
      <3>1. SlotTo(w, [slot[w] EXCEPT !.pc = "returning", !.denied = TRUE])
            \/ SlotTo(w, [slot[w] EXCEPT !.pc = "completing"])
            \/ SlotTo(w, [slot[w] EXCEPT !.pc = "starting", !.prior = sessions[slot[w].s].waiting])
        BY <2>5 DEF Load
      <3> QED
        BY <2>2, <2>4, <2>5, <3>1 DEF Load, AgentSlot
    <2>6. CASE Refuse(w)
      <3>1. SlotTo(w, [slot[w] EXCEPT !.pc = "completing", !.prior = Nobody])
            \/ \E denied \in BOOLEAN :
                 SlotTo(w, [slot[w] EXCEPT !.pc = "returning", !.denied = denied, !.prior = Nobody])
        BY <2>6 DEF Refuse
      <3> QED
        BY <2>2, <2>4, <2>6, <3>1 DEF Refuse, AgentSlot
    <2>7. CASE StartTurn(w)
      BY <2>2, <2>4, <2>7 DEF StartTurn, AgentSlot
    <2>8. CASE Decide(w)
      <3>1. \E r : SlotTo(w, [slot[w] EXCEPT !.pc = "storing", !.result = r])
        BY <2>8 DEF Decide
      <3> QED
        BY <2>2, <2>4, <2>8, <3>1 DEF Decide, AgentSlot
    <2>9. CASE Throw(w)
      <3>1. \E denied : SlotTo(w, [slot[w] EXCEPT !.pc = "recording", !.denied = denied, !.result = Nobody])
        BY <2>9 DEF Throw
      <3> QED
        BY <2>2, <2>4, <2>9, <3>1 DEF Throw, AgentSlot
    <2>10. CASE Store(w)
      BY <2>2, <2>4, <2>10 DEF Store, AgentSlot
    <2>11. CASE Complete(w) \/ GiveBack(w)
      BY <2>3, <2>4, <2>11 DEF Complete, GiveBack
    <2>12. CASE Record(w)
      BY <2>2, <2>4, <2>12 DEF Record, SlotAt, AgentSlot
    <2>13. CASE Renew(w)
      BY <1>3, <2>13 DEF Renew, actors
    <2>14. CASE SlotFault(w)
      <3>1. CASE SlotTo(w, IdleSlot)
        BY <2>3, <2>4, <3>1
      <3>2. CASE \E pc : SlotTo(w, [slot[w] EXCEPT !.pc = pc]) /\ slot[w].pc # "idle"
        BY <2>2, <2>4, <3>2 DEF AgentSlot
      <3> QED
        BY <2>14, <3>1, <3>2 DEF SlotFault, SlotAt
    <2> QED
      BY <1>4, <2>1, <2>5, <2>6, <2>7, <2>8, <2>9, <2>10, <2>11, <2>12, <2>13, <2>14
      DEF SlotActs, SlotStep
  <1>5. ASSUME NEW p \in Procs, Crash(p) PROVE SlotsHold'
    BY <1>2, <1>5 DEF Crash, IdleSlot, SlotsHold, SessionInv, SlotsGood
  <1>6. ASSUME NEW m \in Members, MemberActs(m) PROVE slot' = slot
    BY <1>6 DEF MemberActs, RequestStep, Send, ReadQuestion, Cancel, Answer, QueueTurn, CancelTurns,
                MemberFault
  <1>7. ASSUME NEW p \in Procs, CoordStep(p) \/ CoordFault(p) \/ SweepStep(p) \/ SweepFault(p) \/ Boot(p)
        PROVE  slot' = slot
    BY <1>7 DEF CoordStep, SweepStep, List, Look, ListDone, Deny, Ask, WakeSession, QueueResume,
                CoordFault, SweepTurns, SweepSession, SweepFault, Boot
  <1>8. CASE Elsewhere
    BY <1>3, <1>8 DEF Elsewhere, Progress, TurnExpires, WorkerStalls, actors
  <1>9. ASSUME NEW p \in Procs, ProcActs(p) PROVE SlotsHold'
    BY <1>3, <1>5, <1>7, <1>9 DEF ProcActs
  <1> QED
    BY <1>3, <1>4, <1>6, <1>8, <1>9, Actors DEF sessionVars

-----------------------------------------------------------------------------
(* A slot that is not leaving, and a turn that was just queued, see to     *)
(* their session.                                                          *)
LEMMA SlotServes ==
    ASSUME NEW w \in Workers, NEW s \in Sessions,
           slot'[w].s = s, slot'[w].pc # "idle", ~Leaving(w)'
    PROVE  SafeAfter(s)
  BY DEF SafeAfter, Served

LEMMA QueuedServes ==
    ASSUME SessionInv, SlotsHold, NEW s \in Sessions, NEW trigger, Enqueue(s, trigger), slot' = slot
    PROVE  SafeAfter(s)
  <1>1. PICK j \in DOMAIN jobs'[s] \ DOMAIN jobs[s] :
            jobs'[s][j] = [trigger |-> trigger, status |-> "pending", owner |-> Nobody,
                           live |-> FALSE, attempts |-> 0]
    BY TurnQueuedAt
  <1>2. jobs'[s][j].status = "pending" /\ jobs'[s][j].attempts = 0
    BY <1>1
  <1>3. \A w \in Workers : slot[w].pc # "idle" /\ slot[w].s = s => slot[w].turn # j
    BY DEF SlotsHold
  <1>4. 0 < MaxAttempts
    BY SessionAssumption
  <1>5. Serving(s, j)'
    BY <1>2, <1>3, <1>4 DEF Serving, Open
  <1> QED
    BY <1>5 DEF SafeAfter, Served

(* A session whose row, turns, slots and sweep are as they were. *)
LEMMA RestStays ==
    ASSUME NEW s \in Sessions, SameTurns(s), \A w \in Workers : slot'[w] = slot[w],
           \A p \in Procs : s \in sweep[p] => s \in sweep'[p],
           sessions'[s].status = "running" => sessions[s].status = "running",
           sessions'[s].cancelled = sessions[s].cancelled,
           Queueing(s) => Queueing(s)'
    PROVE  Undisturbed(s)
  BY DEF Undisturbed, Stays

LEMMA TurnsStay ==
    ASSUME NEW s \in Sessions, jobs'[s] = jobs[s] PROVE SameTurns(s)
  BY DEF SameTurns

LEMMA MemberServed ==
    ASSUME ServedInv, [SessionNext]_sessionVars, NEW m \in Members, MemberActs(m), NEW s \in Sessions
    PROVE  SafeAfter(s)
  <1>0. SessionInv /\ SlotsHold /\ RunningIsServed /\ cut \subseteq cut'
    BY CutGrows DEF ServedInv
  <1>1. slot' = slot /\ sweep' = sweep /\ coord' = coord
    BY DEF MemberActs, RequestStep, Send, ReadQuestion, Cancel, Answer, QueueTurn, CancelTurns,
           MemberFault
  <1>2. ASSUME SameTurns(s), sessions'[s].cancelled = sessions[s].cancelled,
               sessions'[s].status = "running" => sessions[s].status = "running",
               \A n \in Members : member[n].pc = "queueing" /\ member[n].s = s => member'[n] = member[n]
        PROVE  SafeAfter(s)
    <2>1. Queueing(s) => Queueing(s)'
      BY <1>1, <1>2 DEF Queueing
    <2> QED
      BY <1>0, <1>1, <1>2, <2>1, RestStays, ServedStays
  <1>3. ASSUME NEW a, MemberTo(m, a) PROVE \A n \in Members : member'[n] = IF n = m THEN a ELSE member[n]
    BY <1>0, <1>3, Written
  <1>4. ASSUME member'[m].pc = "queueing", member'[m].s = s PROVE SafeAfter(s)
    BY <1>4 DEF SafeAfter, Served, Queueing
  <1>5. CASE Send(m)
    <2>1. PICK z \in Sessions : /\ WriteSession(z, [sessions[z] EXCEPT !.status = "running"])
                                /\ MemberTo(m, [pc |-> "queueing", s |-> z, trigger |-> "user"])
      BY <1>5 DEF Send, SetStatus
    <2>2. CASE z = s
      <3>1. member'[m].pc = "queueing" /\ member'[m].s = s
        BY <1>3, <2>1, <2>2
      <3> QED
        BY <1>4, <3>1
    <2>3. CASE z # s
      <3>1. sessions'[s] = sessions[s]
        BY <1>0, <2>1, <2>3, Written
      <3>2. \A n \in Members : member[n].pc = "queueing" => member'[n] = member[n]
        BY <1>3, <1>5, <2>1 DEF Send
      <3>3. SameTurns(s)
        BY <1>5, TurnsStay DEF Send
      <3> QED
        BY <1>2, <3>1, <3>2, <3>3
    <2> QED
      BY <2>2, <2>3
  <1>6. CASE ReadQuestion(m)
    <2>1. PICK z \in Sessions : MemberTo(m, [pc |-> "answering", s |-> z, trigger |-> "answer"])
      BY <1>6 DEF ReadQuestion
    <2>2. \A n \in Members : member[n].pc = "queueing" => member'[n] = member[n]
      BY <1>3, <1>6, <2>1 DEF ReadQuestion
    <2>3. sessions'[s] = sessions[s] /\ SameTurns(s)
      BY <1>6, TurnsStay DEF ReadQuestion, rows
    <2> QED
      BY <1>2, <2>2, <2>3
  <1>7. CASE Answer(m)
    <2>1. SameTurns(s) /\ member[m].pc = "answering" /\ member[m].s \in Sessions
      BY <1>0, <1>7, TurnsStay DEF Answer, SessionInv, MembersGood, GoodMember
    <2>2. CASE sessions' = sessions
      <3>1. \A n \in Members : member[n].pc = "queueing" => member'[n] = member[n]
        BY <1>3, <1>7, <2>1 DEF Answer
      <3> QED
        BY <1>2, <2>1, <2>2, <3>1
    <2>3. CASE SetStatus(member[m].s, "running") /\ MemberTo(m, [member[m] EXCEPT !.pc = "queueing"])
      <3>1. member[m] \in MemberRequest
        BY <1>0 DEF SessionInv, MembersGood
      <3>2. [member[m] EXCEPT !.pc = "queueing"].pc = "queueing"
            /\ [member[m] EXCEPT !.pc = "queueing"].s = member[m].s
        BY <3>1 DEF MemberRequest
      <3>3. member'[m].pc = "queueing" /\ member'[m].s = member[m].s
            /\ \A n \in Members \ {m} : member'[n] = member[n]
        BY <1>3, <2>3, <3>2
      <3>4. CASE member[m].s = s
        BY <1>4, <3>3, <3>4
      <3>5. CASE member[m].s # s
        <4>1. sessions'[s] = sessions[s]
          BY <1>0, <2>1, <2>3, <3>5, Written DEF SetStatus
        <4> QED
          BY <1>2, <2>1, <3>3, <4>1
      <3> QED
        BY <3>4, <3>5
    <2> QED
      BY <1>7, <2>2, <2>3 DEF Answer
  <1>8. CASE QueueTurn(m)
    <2>1. member[m].s \in Sessions /\ Enqueue(member[m].s, member[m].trigger) /\ sessions' = sessions
          /\ MemberTo(m, IdleMember)
      BY <1>0, <1>8 DEF QueueTurn, SessionInv, MembersGood, GoodMember
    <2>2. CASE member[m].s = s
      BY <1>0, <1>1, <2>1, <2>2, QueuedServes
    <2>3. CASE member[m].s # s
      <3>1. SameTurns(s)
        BY <1>0, <2>1, <2>3, TurnQueuedAt, TurnsStay
      <3>2. \A n \in Members \ {m} : member'[n] = member[n]
        BY <1>3, <2>1
      <3> QED
        BY <1>2, <2>1, <2>3, <3>1, <3>2
    <2> QED
      BY <2>2, <2>3
  <1>9. CASE Cancel(m)
    <2>1. PICK z \in Sessions :
            /\ WriteSession(z, [sessions[z] EXCEPT !.status = "failed", !.waiting = Nobody, !.cancelled = TRUE])
            /\ MemberTo(m, [pc |-> "cancelling", s |-> z, trigger |-> "user"])
      BY <1>9 DEF Cancel
    <2>2. CASE z = s
      <3>1. sessions[s] \in AgentSession
        BY <1>0 DEF SessionInv, SessionsGood
      <3>2. [sessions[s] EXCEPT !.status = "failed", !.waiting = Nobody, !.cancelled = TRUE].status = "failed"
        BY <3>1 DEF AgentSession
      <3>3. sessions'[s].status = "failed"
        BY <1>0, <2>1, <2>2, <3>2, Written
      <3> QED
        BY <3>3 DEF SafeAfter
    <2>3. CASE z # s
      <3>1. sessions'[s] = sessions[s]
        BY <1>0, <2>1, <2>3, Written
      <3>2. \A n \in Members : member[n].pc = "queueing" => member'[n] = member[n]
        BY <1>3, <1>9, <2>1 DEF Cancel
      <3>3. SameTurns(s)
        BY <1>9, TurnsStay DEF Cancel
      <3> QED
        BY <1>2, <3>1, <3>2, <3>3
    <2> QED
      BY <2>2, <2>3
  <1>10. CASE CancelTurns(m)
    <2>1. /\ sessions' = sessions /\ MemberTo(m, IdleMember) /\ member[m].pc = "cancelling"
          /\ cut' = IF sessions[member[m].s].status = "running" THEN cut \cup {member[m].s} ELSE cut
      BY <1>10 DEF CancelTurns
    <2>2. CASE member[m].s = s
      BY <2>1, <2>2 DEF SafeAfter
    <2>3. CASE member[m].s # s
      <3>1. jobs'[s] = jobs[s]
        BY <1>0, <1>10, <2>3 DEF CancelTurns, SessionInv, TurnsGood
      <3>2. \A n \in Members : member[n].pc = "queueing" => member'[n] = member[n]
        BY <1>3, <2>1
      <3> QED
        BY <1>2, <2>1, <3>1, <3>2, TurnsStay
    <2> QED
      BY <2>2, <2>3
  <1>11. CASE MemberFault(m)
    <2>1. /\ sessions' = sessions /\ MemberTo(m, IdleMember) /\ SameTurns(s)
          /\ cut' = IF member[m].pc = "queueing" THEN cut \cup {member[m].s} ELSE cut
      BY <1>11, TurnsStay DEF MemberFault, rows
    <2>2. CASE member[m].pc = "queueing" /\ member[m].s = s
      BY <2>1, <2>2 DEF SafeAfter
    <2>3. CASE ~(member[m].pc = "queueing" /\ member[m].s = s)
      <3>1. \A n \in Members \ {m} : member'[n] = member[n]
        BY <1>3, <2>1
      <3> QED
        BY <1>2, <2>1, <2>3, <3>1
    <2> QED
      BY <2>2, <2>3
  <1> QED
    BY <1>5, <1>6, <1>7, <1>8, <1>9, <1>10, <1>11 DEF MemberActs, RequestStep

-----------------------------------------------------------------------------
(* Where a step of a slot takes it: on with its turn, or away from it.     *)
MovesTo(w, pc) == slot'[w].pc = pc /\ slot'[w].s = slot[w].s /\ slot'[w].turn = slot[w].turn

LEMMA SlotMoves ==
    ASSUME SessionInv, NEW w \in Workers, SlotActs(w), ~Claim(w)
    PROVE  /\ slot[w].pc # "idle"
           /\ \A v \in Workers \ {w} : slot'[v] = slot[v]
           /\ Load(w) => \/ MovesTo(w, "returning")
                         \/ ~sessions[slot[w].s].cancelled /\ MovesTo(w, "starting")
                         \/ Void(w) /\ MovesTo(w, "completing")
           /\ Refuse(w) => \/ MovesTo(w, "returning")
                           \/ sessions[slot[w].s].cancelled /\ MovesTo(w, "completing")
           /\ StartTurn(w) => MovesTo(w, "working")
           /\ Decide(w) => MovesTo(w, "storing")
           /\ Throw(w) => MovesTo(w, "recording")
           /\ Store(w) => MovesTo(w, "completing")
           /\ Record(w) => MovesTo(w, "returning")
           /\ Complete(w) \/ GiveBack(w) => slot'[w] = IdleSlot
           /\ Renew(w) => slot'[w] = slot[w]
           /\ SlotFault(w) => \/ MovesTo(w, "returning") \/ MovesTo(w, "recording")
                              \/ slot[w].pc = "returning" /\ slot'[w] = IdleSlot
  <1>1. slot[w] \in AgentSlot
    BY DEF SessionInv, SlotsGood
  <1>2. ASSUME NEW a, SlotTo(w, a)
        PROVE  slot'[w] = a /\ \A v \in Workers \ {w} : slot'[v] = slot[v]
    BY <1>2, Written
  <1>3. ASSUME NEW a, SlotTo(w, a), a.s = slot[w].s, a.turn = slot[w].turn
        PROVE  MovesTo(w, a.pc)
    BY <1>2, <1>3 DEF MovesTo
  <1>4. slot[w].pc # "idle"
    BY DEF SlotActs, SlotStep, Load, Refuse, StartTurn, Decide, Throw, Store, Complete,
           Record, GiveBack, Renew, SlotFault
  <1>5. \A v \in Workers \ {w} : slot'[v] = slot[v]
    <2>1. (\E a : SlotTo(w, a)) \/ slot' = slot
      BY DEF SlotActs, SlotStep, Load, Refuse, StartTurn, Decide, Throw, Store, Complete,
             Record, GiveBack, Renew, SlotFault, SlotAt, actors
    <2> QED
      BY <1>2, <2>1
  <1>6. ASSUME Load(w)
        PROVE  \/ MovesTo(w, "returning")
               \/ ~sessions[slot[w].s].cancelled /\ MovesTo(w, "starting")
               \/ Void(w) /\ MovesTo(w, "completing")
    <2>1. CASE SlotTo(w, [slot[w] EXCEPT !.pc = "returning", !.denied = TRUE])
      <3> DEFINE a == [slot[w] EXCEPT !.pc = "returning", !.denied = TRUE]
      <3>1. a.pc = "returning" /\ a.s = slot[w].s /\ a.turn = slot[w].turn
        BY <1>1 DEF AgentSlot
      <3>2. SlotTo(w, a)
        BY <2>1
      <3> HIDE DEF a
      <3> QED
        BY <1>3, <3>1, <3>2
    <2>2. CASE Void(w) /\ SlotTo(w, [slot[w] EXCEPT !.pc = "completing"])
      BY <1>1, <1>3, <2>2 DEF AgentSlot
    <2>3. CASE ~sessions[slot[w].s].cancelled
               /\ SlotTo(w, [slot[w] EXCEPT !.pc = "starting", !.prior = sessions[slot[w].s].waiting])
      <3> DEFINE a == [slot[w] EXCEPT !.pc = "starting", !.prior = sessions[slot[w].s].waiting]
      <3>1. a.pc = "starting" /\ a.s = slot[w].s /\ a.turn = slot[w].turn
        BY <1>1 DEF AgentSlot
      <3>2. SlotTo(w, a)
        BY <2>3
      <3> HIDE DEF a
      <3> QED
        BY <1>3, <2>3, <3>1, <3>2
    <2> QED
      BY <1>6, <2>1, <2>2, <2>3 DEF Load
  <1>7. ASSUME Refuse(w)
        PROVE  \/ MovesTo(w, "returning")
               \/ sessions[slot[w].s].cancelled /\ MovesTo(w, "completing")
    <2>1. CASE sessions[slot[w].s].cancelled /\ SlotTo(w, [slot[w] EXCEPT !.pc = "completing", !.prior = Nobody])
      <3> DEFINE a == [slot[w] EXCEPT !.pc = "completing", !.prior = Nobody]
      <3>1. a.pc = "completing" /\ a.s = slot[w].s /\ a.turn = slot[w].turn
        BY <1>1 DEF AgentSlot
      <3>2. SlotTo(w, a)
        BY <2>1
      <3> HIDE DEF a
      <3> QED
        BY <1>3, <2>1, <3>1, <3>2
    <2>2. ASSUME NEW denied, SlotTo(w, [slot[w] EXCEPT !.pc = "returning", !.denied = denied, !.prior = Nobody])
          PROVE  MovesTo(w, "returning")
      <3> DEFINE a == [slot[w] EXCEPT !.pc = "returning", !.denied = denied, !.prior = Nobody]
      <3>1. a.pc = "returning" /\ a.s = slot[w].s /\ a.turn = slot[w].turn
        BY <1>1 DEF AgentSlot
      <3>2. SlotTo(w, a)
        BY <2>2
      <3> HIDE DEF a
      <3> QED
        BY <1>3, <3>1, <3>2
    <2> QED
      BY <1>7, <2>1, <2>2 DEF Refuse
  <1>8. ASSUME StartTurn(w) PROVE MovesTo(w, "working")
    <2> DEFINE a == [slot[w] EXCEPT !.pc = "working", !.prior = Nobody]
    <2>1. a.pc = "working" /\ a.s = slot[w].s /\ a.turn = slot[w].turn
      BY <1>1 DEF AgentSlot
    <2>2. SlotTo(w, a)
      BY <1>8 DEF StartTurn
    <2> HIDE DEF a
    <2> QED
      BY <1>3, <2>1, <2>2
  <1>9. ASSUME Decide(w) PROVE MovesTo(w, "storing")
    <2>0. PICK r : SlotTo(w, [slot[w] EXCEPT !.pc = "storing", !.result = r])
      BY <1>9 DEF Decide
    <2> DEFINE a == [slot[w] EXCEPT !.pc = "storing", !.result = r]
    <2>1. a.pc = "storing" /\ a.s = slot[w].s /\ a.turn = slot[w].turn
      BY <1>1 DEF AgentSlot
    <2>2. SlotTo(w, a)
      BY <2>0
    <2> HIDE DEF a
    <2> QED
      BY <1>3, <2>1, <2>2
  <1>10. ASSUME Throw(w) PROVE MovesTo(w, "recording")
    <2>0. PICK denied : SlotTo(w, [slot[w] EXCEPT !.pc = "recording", !.denied = denied, !.result = Nobody])
      BY <1>10 DEF Throw
    <2> DEFINE a == [slot[w] EXCEPT !.pc = "recording", !.denied = denied, !.result = Nobody]
    <2>1. a.pc = "recording" /\ a.s = slot[w].s /\ a.turn = slot[w].turn
      BY <1>1 DEF AgentSlot
    <2>2. SlotTo(w, a)
      BY <2>0
    <2> HIDE DEF a
    <2> QED
      BY <1>3, <2>1, <2>2
  <1>11. ASSUME Store(w) PROVE MovesTo(w, "completing")
    <2> DEFINE a == [slot[w] EXCEPT !.pc = "completing", !.result = Nobody]
    <2>1. a.pc = "completing" /\ a.s = slot[w].s /\ a.turn = slot[w].turn
      BY <1>1 DEF AgentSlot
    <2>2. SlotTo(w, a)
      BY <1>11 DEF Store
    <2> HIDE DEF a
    <2> QED
      BY <1>3, <2>1, <2>2
  <1>12. ASSUME NEW pc, SlotAt(w, pc) PROVE MovesTo(w, pc)
    BY <1>1, <1>3, <1>12 DEF SlotAt, AgentSlot
  <1>13. Record(w) => MovesTo(w, "returning")
    BY <1>12 DEF Record
  <1>14. Complete(w) \/ GiveBack(w) => slot'[w] = IdleSlot
    BY <1>2 DEF Complete, GiveBack
  <1>15. Renew(w) => slot'[w] = slot[w]
    BY DEF Renew, actors
  <1>16. SlotFault(w) => \/ MovesTo(w, "returning") \/ MovesTo(w, "recording")
                         \/ slot[w].pc = "returning" /\ slot'[w] = IdleSlot
    BY <1>2, <1>12 DEF SlotFault
  <1> QED
    BY <1>4, <1>5, <1>6, <1>7, <1>8, <1>9, <1>10, <1>11, <1>13, <1>14, <1>15, <1>16

LEMMA SlotServedOther ==
    ASSUME ServedInv, [SessionNext]_sessionVars, NEW w \in Workers, SlotActs(w),
           NEW s \in Sessions, Away(w, s)
    PROVE  SafeAfter(s)
  <1>0. SessionInv /\ SlotsHold /\ RunningIsServed /\ cut \subseteq cut'
    BY CutGrows DEF ServedInv
  <1>1. coord' = coord /\ sweep' = sweep /\ member' = member
    BY DEF SlotActs, SlotStep, Claim, Load, Refuse, StartTurn, Decide, Throw, Store, Complete,
           Record, GiveBack, Renew, SlotFault, actors
  <1>2. ASSUME sessions'[s] = sessions[s], jobs'[s] = jobs[s],
               \A v \in Workers \ {w} : slot'[v] = slot[v], Away(w, s)'
        PROVE  SafeAfter(s)
    <2>1. Queueing(s) => Queueing(s)'
      BY <1>1 DEF Queueing
    <2>2. \A v \in Workers : Stays(v, s)
      BY <1>2 DEF Stays
    <2>3. SameTurns(s)
      BY <1>2, TurnsStay
    <2>4. Undisturbed(s)
      BY <1>1, <1>2, <2>1, <2>2, <2>3 DEF Undisturbed
    <2> QED
      BY <1>0, <2>4, ServedStays
  <1>3. CASE Claim(w)
    <2>1. PICK z \in Sessions : \E i \in DOMAIN jobs[z] :
            /\ \E t : WriteTurn(z, i, t)
            /\ SlotTo(w, [IdleSlot EXCEPT !.pc = "loading", !.s = z, !.turn = i,
                                          !.attempt = jobs[z][i].attempts + 1])
      BY <1>3 DEF Claim
    <2>2. PICK i \in DOMAIN jobs[z] :
            /\ \E t : WriteTurn(z, i, t)
            /\ SlotTo(w, [IdleSlot EXCEPT !.pc = "loading", !.s = z, !.turn = i,
                                          !.attempt = jobs[z][i].attempts + 1])
      BY <2>1
    <2> DEFINE a == [IdleSlot EXCEPT !.pc = "loading", !.s = z, !.turn = i,
                                     !.attempt = jobs[z][i].attempts + 1]
    <2>3. a.pc = "loading" /\ a.s = z
      BY DEF IdleSlot
    <2>4. SlotTo(w, a)
      BY <2>2
    <2> HIDE DEF a
    <2>5. \A v \in Workers : slot'[v] = IF v = w THEN a ELSE slot[v]
      BY <1>0, <2>4, Written
    <2>6. CASE z = s
      <3>1. slot'[w].s = s /\ slot'[w].pc = "loading"
        BY <2>3, <2>5, <2>6
      <3> QED
        BY <3>1, SlotServes DEF Leaving
    <2>7. CASE z # s
      <3>1. jobs'[s] = jobs[s] /\ sessions' = sessions
        BY <1>0, <1>3, <2>2, <2>7, TurnWrittenAt DEF Claim
      <3>2. Away(w, s)'
        BY <2>3, <2>5, <2>7 DEF Away
      <3> QED
        BY <1>2, <2>5, <3>1, <3>2
    <2> QED
      BY <2>6, <2>7
  <1>4. CASE ~Claim(w)
    <2>1. /\ slot[w].pc # "idle" /\ \A v \in Workers \ {w} : slot'[v] = slot[v]
          /\ slot'[w] = IdleSlot \/ slot'[w].s = slot[w].s
      BY <1>0, <1>4, SlotMoves DEF MovesTo, SlotActs, SlotStep
    <2>2. slot[w].s # s /\ slot[w].s \in Sessions /\ slot[w].turn \in DOMAIN jobs[slot[w].s]
      BY <1>0, <2>1 DEF Away, SlotsHold, SessionInv, SlotsGood, GoodSlot
    <2>3. sessions' = sessions \/ \E row : WriteSession(slot[w].s, row)
      BY <1>4 DEF SlotActs, SlotStep, Load, Refuse, StartTurn, Decide, Throw, Store, Complete,
                  Record, GiveBack, Renew, SlotFault, SetStatus, Fail, rows
    <2>4. jobs' = jobs \/ \E t : WriteTurn(slot[w].s, slot[w].turn, t)
      BY <1>4 DEF SlotActs, SlotStep, Load, Refuse, StartTurn, Decide, Throw, Store, Complete,
                  Record, GiveBack, ReturnTurn, Renew, SlotFault, rows
    <2>5. sessions'[s] = sessions[s]
      BY <1>0, <2>2, <2>3, Written
    <2>6. jobs'[s] = jobs[s]
      BY <1>0, <2>2, <2>4, TurnWrittenAt
    <2>7. Away(w, s)'
      BY <2>1, <2>2 DEF Away, IdleSlot
    <2> QED
      BY <1>2, <2>1, <2>5, <2>6, <2>7
  <1> QED
    BY <1>3, <1>4

(* A slot that leaves and is gone: whoever else served the session does.   *)
LEMMA LeavesQuietly ==
    ASSUME ServedInv, cut \subseteq cut', NEW w \in Workers, NEW s \in Sessions,
           slot[w].s = s, slot[w].pc # "idle", Leaving(w), slot'[w] = IdleSlot,
           \A v \in Workers \ {w} : slot'[v] = slot[v],
           sessions' = sessions, coord' = coord, member' = member, sweep' = sweep,
           DOMAIN jobs'[s] = DOMAIN jobs[s],
           \A i \in DOMAIN jobs[s] : jobs'[s][i] = jobs[s][i] \/ (i = slot[w].turn /\ Owns(w))
    PROVE  SafeAfter(s)
  <1>1. SUFFICES ASSUME Served(s) PROVE Served(s)'
    BY DEF SafeAfter, ServedInv, RunningIsServed
  <1>2. CASE Queueing(s)
    BY <1>2 DEF Served, Queueing
  <1>3. ASSUME NEW i \in DOMAIN jobs[s], Serving(s, i) PROVE Serving(s, i)'
    <2>1. jobs'[s][i] = jobs[s][i]
      BY <1>3 DEF Serving
    <2>2. ASSUME NEW v \in Workers, slot'[v].pc # "idle", slot'[v].s = s, slot'[v].turn = i,
                 jobs'[s][i].owner = OwnerOf(v), Leaving(v)'
          PROVE  FALSE
      <3>1. v # w /\ slot'[v] = slot[v]
        BY <2>2 DEF IdleSlot
      <3>2. Leaving(v)
        BY <2>2, <3>1 DEF Leaving
      <3> QED
        BY <1>3, <2>1, <2>2, <3>1, <3>2 DEF Serving, Owns, Turn
    <2> QED
      BY <1>3, <2>1, <2>2 DEF Serving, Open, Owns, Turn
  <1>4. ASSUME NEW v \in Workers, slot[v].pc # "idle", slot[v].s = s, ~Leaving(v) PROVE Served(s)'
    <2>1. slot'[v] = slot[v]
      BY <1>4
    <2>2. ~Leaving(v)'
      BY <1>4, <2>1 DEF Leaving
    <2> QED
      BY <1>4, <2>1, <2>2 DEF Served
  <1>5. CASE \E p \in Procs : s \in sweep[p]
    BY <1>5 DEF Served
  <1> QED
    BY <1>1, <1>2, <1>3, <1>4, <1>5 DEF Served

LEMMA SlotServedOwn ==
    ASSUME ServedInv, [SessionNext]_sessionVars, NEW w \in Workers, SlotActs(w),
           NEW s \in Sessions, slot[w].pc # "idle", slot[w].s = s
    PROVE  SafeAfter(s)
  <1>0. /\ SessionInv /\ SlotsHold /\ TurnsOwned /\ RunningIsServed /\ cut \subseteq cut'
        /\ slot[w].turn \in DOMAIN jobs[s] /\ sessions[s] \in AgentSession
    BY CutGrows DEF ServedInv, SlotsHold, SessionInv, SessionsGood
  <1>1. coord' = coord /\ sweep' = sweep /\ member' = member
    BY DEF SlotActs, SlotStep, Claim, Load, Refuse, StartTurn, Decide, Throw, Store, Complete,
           Record, GiveBack, Renew, SlotFault, actors
  <1>2. ~Claim(w)
    BY DEF Claim
  <1>3. \A v \in Workers \ {w} : slot'[v] = slot[v]
    BY <1>0, <1>2, SlotMoves
  <1>4. ASSUME NEW pc \in {"loading", "recording", "returning"}, MovesTo(w, pc) PROVE SafeAfter(s)
    BY <1>4, SlotServes DEF MovesTo, Leaving
  <1>5. ASSUME NEW pc \in {"starting", "working", "storing"}, MovesTo(w, pc), ~sessions'[s].cancelled
        PROVE  SafeAfter(s)
    BY <1>5, SlotServes DEF MovesTo, Leaving
  <1>6. ASSUME NEW pc, MovesTo(w, pc), Leaving(w), Leaving(w)', sessions' = sessions, jobs' = jobs
        PROVE  SafeAfter(s)
    <2>1. \A v \in Workers : Stays(v, s)
      BY <1>3, <1>6 DEF Stays, MovesTo
    <2>2. Queueing(s) => Queueing(s)'
      BY <1>1 DEF Queueing
    <2>3. Undisturbed(s)
      BY <1>1, <1>6, <2>1, <2>2, TurnsStay DEF Undisturbed
    <2> QED
      BY <1>0, <2>3, ServedStays
  <1>7. CASE Load(w)
    <2>1. sessions' = sessions
      BY <1>7 DEF Load, rows
    <2>2. CASE MovesTo(w, "returning")
      BY <1>4, <2>2
    <2>3. CASE ~sessions[s].cancelled /\ MovesTo(w, "starting")
      BY <1>5, <2>1, <2>3
    <2>4. CASE Void(w)
      BY <2>1, <2>4 DEF Void, SafeAfter
    <2> QED
      BY <1>0, <1>2, <1>7, <2>2, <2>3, <2>4, SlotMoves
  <1>8. CASE Refuse(w)
    <2>1. sessions' = sessions /\ jobs' = jobs /\ slot[w].pc = "starting"
      BY <1>8 DEF Refuse, rows
    <2>2. CASE MovesTo(w, "returning")
      BY <1>4, <2>2
    <2>3. CASE sessions[s].cancelled /\ MovesTo(w, "completing")
      BY <1>6, <2>1, <2>3 DEF Leaving, MovesTo
    <2> QED
      BY <1>0, <1>2, <1>8, <2>2, <2>3, SlotMoves
  <1>9. CASE StartTurn(w)
    <2>1. MovesTo(w, "working")
      BY <1>0, <1>2, <1>9, SlotMoves
    <2>2. ~sessions[s].cancelled /\ WriteSession(s, [sessions[s] EXCEPT !.status = "running", !.waiting = Nobody])
      BY <1>9 DEF StartTurn, MayStart
    <2>3. [sessions[s] EXCEPT !.status = "running", !.waiting = Nobody].cancelled = sessions[s].cancelled
      BY <1>0 DEF AgentSession
    <2>4. ~sessions'[s].cancelled
      <3> DEFINE row == [sessions[s] EXCEPT !.status = "running", !.waiting = Nobody]
      <3>1. WriteSession(s, row) /\ ~row.cancelled
        BY <2>2, <2>3
      <3> HIDE DEF row
      <3> QED
        BY <1>0, <3>1, Written
    <2> QED
      BY <1>5, <2>1, <2>4
  <1>10. CASE Decide(w)
    <2>1. sessions' = sessions /\ jobs' = jobs /\ slot[w].pc = "working" /\ MovesTo(w, "storing")
      BY <1>0, <1>2, <1>10, SlotMoves DEF Decide, rows
    <2>2. CASE sessions[s].cancelled
      BY <1>6, <2>1, <2>2 DEF Leaving, MovesTo
    <2>3. CASE ~sessions[s].cancelled
      BY <1>5, <2>1, <2>3
    <2> QED
      BY <2>2, <2>3
  <1>11. CASE Throw(w)
    BY <1>0, <1>2, <1>4, <1>11, SlotMoves
  <1>12. CASE Store(w)
    <2>1. jobs' = jobs /\ slot[w].pc = "storing" /\ MovesTo(w, "completing")
      BY <1>0, <1>2, <1>12, SlotMoves DEF Store
    <2>2. CASE sessions[s].cancelled
      BY <1>6, <1>12, <2>1, <2>2 DEF Leaving, MovesTo, Store
    <2>3. CASE ~sessions[s].cancelled
      <3>1. WriteSession(s, Result(slot[w].result))
        BY <1>12, <2>3 DEF Store
      <3>2. slot[w].result \in Outcomes
        BY <1>0, <2>1 DEF SessionInv, SlotsGood, GoodSlot
      <3>3. Result(slot[w].result).status # "running"
        BY <3>2 DEF Result, Outcomes
      <3>4. sessions'[s].status # "running"
        BY <1>0, <3>1, <3>3, Written
      <3> QED
        BY <3>4 DEF SafeAfter
    <2> QED
      BY <2>2, <2>3
  <1>13. CASE Complete(w)
    <2>1. /\ slot'[w] = IdleSlot /\ Leaving(w) /\ sessions' = sessions
          /\ jobs' = jobs \/ (Owns(w) /\ \E t : WriteTurn(s, slot[w].turn, t))
      <3>1. slot'[w] = IdleSlot
        BY <1>0, <1>2, <1>13, SlotMoves
      <3>2. Leaving(w) /\ sessions' = sessions
        BY <1>13 DEF Complete, Leaving
      <3>3. jobs' = jobs \/ (Owns(w) /\ \E t : WriteTurn(s, slot[w].turn, t))
        BY <1>13 DEF Complete
      <3> QED
        BY <3>1, <3>2, <3>3
    <2>2. /\ DOMAIN jobs'[s] = DOMAIN jobs[s]
          /\ \A i \in DOMAIN jobs[s] : jobs'[s][i] = jobs[s][i] \/ (i = slot[w].turn /\ Owns(w))
      <3>1. CASE jobs' = jobs
        BY <3>1
      <3>2. CASE Owns(w) /\ \E t : WriteTurn(s, slot[w].turn, t)
        BY <1>0, <3>2, TurnWrittenAt
      <3> QED
        BY <2>1, <3>1, <3>2
    <2> QED
      BY <1>0, <1>1, <1>3, <2>1, <2>2, LeavesQuietly
  <1>14. CASE Record(w)
    BY <1>0, <1>2, <1>4, <1>14, SlotMoves
  <1>15. CASE GiveBack(w)
    <2>1. CASE ~Owns(w)
      BY <1>15, <2>1 DEF GiveBack, Leave, SafeAfter
    <2>2. CASE Owns(w) /\ ~Retrying(w)
      <3>1. WriteSession(s, [sessions[s] EXCEPT !.status = "failed", !.waiting = Nobody])
        BY <1>15, <2>2 DEF GiveBack, Fail
      <3>2. [sessions[s] EXCEPT !.status = "failed", !.waiting = Nobody].status = "failed"
        BY <1>0 DEF AgentSession
      <3>3. sessions'[s].status = "failed"
        <4> DEFINE row == [sessions[s] EXCEPT !.status = "failed", !.waiting = Nobody]
        <4>1. WriteSession(s, row) /\ row.status = "failed"
          BY <3>1, <3>2
        <4> HIDE DEF row
        <4> QED
          BY <1>0, <4>1, Written
      <3> QED
        BY <3>3 DEF SafeAfter
    <2>3. CASE Owns(w) /\ Retrying(w) /\ Turn(w).attempts >= MaxAttempts
      BY <1>15, <2>3 DEF GiveBack, ReturnTurn, SafeAfter
    <2>4. CASE Owns(w) /\ Retrying(w) /\ ~(Turn(w).attempts >= MaxAttempts)
      <3>0. PICK i \in DOMAIN jobs[s] : i = slot[w].turn
        BY <1>0
      <3> DEFINE t == [jobs[s][i] EXCEPT !.status = "pending", !.owner = Nobody, !.live = FALSE]
      <3>1. jobs[s][i] \in TurnJob
        BY <1>0, TurnsHeld DEF SessionInv
      <3>2. t.status = "pending" /\ t.owner = Nobody /\ t.attempts = jobs[s][i].attempts
        BY <3>1 DEF TurnJob
      <3>3. WriteTurn(s, i, t)
        BY <1>15, <2>4, <3>0 DEF GiveBack, ReturnTurn, Turn
      <3>4. t.attempts < MaxAttempts
        BY <2>4, <3>0, <3>1, <3>2, SessionAssumption DEF TurnJob, Turn, SessionAssumption
      <3> HIDE DEF t
      <3>5. i \in DOMAIN jobs'[s] /\ jobs'[s][i] = t
        BY <1>0, <3>3, TurnWrittenAt
      <3>6. \A v \in Workers : OwnerOf(v) # Nobody
        BY SessionAssumption DEF SessionAssumption, Workers, OwnerOf
      <3>7. \A v \in Workers : slot'[v].s = s /\ slot'[v].turn = i => ~Owns(v)'
        BY <3>2, <3>5, <3>6 DEF Owns, Turn
      <3>8. Serving(s, i)'
        BY <3>2, <3>4, <3>5, <3>7 DEF Serving, Open
      <3> QED
        BY <3>5, <3>8 DEF SafeAfter, Served
    <2> QED
      BY <2>1, <2>2, <2>3, <2>4
  <1>16. CASE Renew(w)
    <2>1. sessions' = sessions /\ slot' = slot
          /\ WriteTurn(s, slot[w].turn, [jobs[s][slot[w].turn] EXCEPT !.live = TRUE])
      BY <1>16 DEF Renew, Turn, actors
    <2>2. SameTurns(s)
      <3> DEFINE t == [jobs[s][slot[w].turn] EXCEPT !.live = TRUE]
      <3>1. jobs[s][slot[w].turn] \in TurnJob
        BY <1>0, TurnsHeld DEF SessionInv
      <3>2. t.status = jobs[s][slot[w].turn].status /\ t.owner = jobs[s][slot[w].turn].owner
            /\ t.attempts = jobs[s][slot[w].turn].attempts
        BY <3>1 DEF TurnJob
      <3>3. WriteTurn(s, slot[w].turn, t)
        BY <2>1
      <3> HIDE DEF t
      <3> QED
        BY <1>0, <3>2, <3>3, TurnWrittenAt DEF SameTurns
    <2>3. Queueing(s) => Queueing(s)'
      BY <1>1 DEF Queueing
    <2>4. Undisturbed(s)
      BY <1>1, <2>1, <2>2, <2>3, RestStays
    <2> QED
      BY <1>0, <2>4, ServedStays
  <1>17. CASE SlotFault(w)
    <2>1. CASE MovesTo(w, "returning") \/ MovesTo(w, "recording")
      BY <1>4, <2>1
    <2>2. CASE slot[w].pc = "returning" /\ slot'[w] = IdleSlot
      <3>1. sessions' = sessions /\ jobs' = jobs
        BY <1>17 DEF SlotFault, rows
      <3>2. CASE ~Owns(w) \/ NeighbourLeaves(w)
        BY <1>17, <2>2, <3>1, <3>2 DEF SlotFault, Leave, SafeAfter
      <3>3. CASE Owns(w) /\ ~NeighbourLeaves(w)
        <4>0. PICK i \in DOMAIN jobs[s] : i = slot[w].turn
          BY <1>0
        <4>1. jobs[s][i].owner = OwnerOf(w) /\ OwnerOf(w) # Nobody
          BY <3>3, <4>0, SessionAssumption DEF SessionAssumption, Workers, OwnerOf, Owns, Turn
        <4>2. jobs[s][i].status = "leased"
          BY <1>0, <4>1 DEF TurnsOwned
        <4>3. ASSUME NEW v \in Workers, slot'[v].pc # "idle", slot'[v].s = s, slot'[v].turn = i,
                     jobs'[s][i].owner = OwnerOf(v), Leaving(v)'
              PROVE  FALSE
          <5>1. v # w /\ slot'[v] = slot[v]
            BY <1>3, <2>2, <4>3 DEF IdleSlot
          <5>2. Leaving(v)
            BY <3>1, <4>3, <5>1 DEF Leaving
          <5> QED
            BY <3>1, <3>3, <4>0, <4>1, <4>3, <5>1, <5>2 DEF NeighbourLeaves
        <4>4. i \in DOMAIN jobs'[s] /\ jobs'[s][i].status = "leased"
          BY <1>0, <3>1, <4>2
        <4>5. Serving(s, i)'
          BY <4>3, <4>4 DEF Serving, Open, Owns, Turn
        <4> QED
          BY <4>4, <4>5 DEF SafeAfter, Served
      <3> QED
        BY <3>2, <3>3
    <2> QED
      BY <1>0, <1>2, <1>17, <2>1, <2>2, SlotMoves
  <1> QED
    BY <1>2, <1>7, <1>8, <1>9, <1>10, <1>11, <1>12, <1>13, <1>14, <1>15, <1>16, <1>17
    DEF SlotActs, SlotStep

LEMMA SlotServed ==
    ASSUME ServedInv, [SessionNext]_sessionVars, NEW w \in Workers, SlotActs(w), NEW s \in Sessions
    PROVE  SafeAfter(s)
  BY SlotServedOther, SlotServedOwn DEF Away

-----------------------------------------------------------------------------
(* A coordinator, a sweep and the worker that starts or dies. *)
LEMMA CoordServed ==
    ASSUME ServedInv, [SessionNext]_sessionVars, NEW p \in Procs, CoordStep(p) \/ CoordFault(p),
           NEW s \in Sessions
    PROVE  SafeAfter(s)
  <1>0. /\ SessionInv /\ SlotsHold /\ RunningIsServed /\ cut \subseteq cut'
        /\ coord[p] \in AgentCoord /\ sessions[s] \in AgentSession
        /\ coord[p].pc \notin {"idle", "listed"} => coord[p].s \in Sessions
    BY CutGrows DEF ServedInv, SessionInv, CoordsGood, GoodCoord, SessionsGood
  <1>1. slot' = slot /\ sweep' = sweep /\ member' = member
    BY DEF CoordStep, List, Look, ListDone, Deny, Ask, WakeSession, QueueResume, CoordFault
  <1>2. ASSUME SameTurns(s), sessions'[s].cancelled = sessions[s].cancelled,
               sessions'[s].status = "running" => sessions[s].status = "running",
               \A q \in Procs : coord[q].pc = "queueing" /\ coord[q].s = s => coord'[q] = coord[q]
        PROVE  SafeAfter(s)
    <2>1. Queueing(s) => Queueing(s)'
      BY <1>1, <1>2 DEF Queueing
    <2> QED
      BY <1>0, <1>1, <1>2, <2>1, RestStays, ServedStays
  <1>3. ASSUME NEW a, CoordTo(p, a) PROVE \A q \in Procs : coord'[q] = IF q = p THEN a ELSE coord[q]
    BY <1>0, <1>3, Written
  <1>4. ASSUME coord[p].pc # "queueing", \E a : CoordTo(p, a)
        PROVE  \A q \in Procs : coord[q].pc = "queueing" => coord'[q] = coord[q]
    BY <1>3, <1>4
  <1>5. ASSUME NEW row, WriteSession(coord[p].s, row), coord[p].s \in Sessions, row.status # "running",
               jobs' = jobs, coord[p].pc # "queueing", \E a : CoordTo(p, a)
        PROVE  SafeAfter(s)
    <2>1. CASE coord[p].s = s
      <3>1. sessions'[s].status # "running"
        BY <1>0, <1>5, <2>1, Written
      <3> QED
        BY <3>1 DEF SafeAfter
    <2>2. CASE coord[p].s # s
      <3>1. sessions'[s] = sessions[s]
        BY <1>0, <1>5, <2>2, Written
      <3> QED
        BY <1>2, <1>4, <1>5, <3>1, TurnsStay
    <2> QED
      BY <2>1, <2>2
  <1>6. CASE List(p) \/ Look(p) \/ ListDone(p)
    <2>1. sessions' = sessions /\ jobs' = jobs /\ coord[p].pc # "queueing" /\ \E a : CoordTo(p, a)
      BY <1>6 DEF List, Look, ListDone, rows
    <2> QED
      BY <1>2, <1>4, <2>1, TurnsStay
  <1>7. CASE Deny(p)
    <2> DEFINE row == [sessions[coord[p].s] EXCEPT !.status = "failed", !.waiting = Nobody]
    <2>1. /\ WriteSession(coord[p].s, row) /\ coord[p].s \in Sessions
          /\ jobs' = jobs /\ coord[p].pc # "queueing" /\ \E a : CoordTo(p, a)
      BY <1>0, <1>7 DEF Deny, Fail, CoordAt
    <2>2. row.status # "running"
      <3>1. sessions[coord[p].s] \in AgentSession
        BY <1>0, <2>1 DEF SessionInv, SessionsGood
      <3> QED
        BY <3>1 DEF AgentSession
    <2> HIDE DEF row
    <2> QED
      BY <1>5, <2>1, <2>2
  <1>8. CASE Ask(p)
    <2> DEFINE row == [sessions[coord[p].s] EXCEPT !.status = "waiting_user", !.waiting = Question]
    <2>1. /\ WriteSession(coord[p].s, row) /\ coord[p].s \in Sessions
          /\ jobs' = jobs /\ coord[p].pc # "queueing" /\ \E a : CoordTo(p, a)
      BY <1>0, <1>8 DEF Ask, CoordAt
    <2>2. row.status # "running"
      <3>1. sessions[coord[p].s] \in AgentSession
        BY <1>0, <2>1 DEF SessionInv, SessionsGood
      <3> QED
        BY <3>1 DEF AgentSession
    <2> HIDE DEF row
    <2> QED
      BY <1>5, <2>1, <2>2
  <1>9. CASE WakeSession(p)
    <2>1. jobs' = jobs /\ coord[p].pc = "claiming" /\ coord[p].s \in Sessions
      BY <1>0, <1>9 DEF WakeSession
    <2>2. CASE MayWake(coord[p].s)
      <3>1. SetStatus(coord[p].s, "running") /\ CoordTo(p, [coord[p] EXCEPT !.pc = "queueing"])
        BY <1>9, <2>2 DEF WakeSession, CoordAt
      <3>2. CASE coord[p].s = s
        <4> DEFINE a == [coord[p] EXCEPT !.pc = "queueing"]
        <4>1. a.pc = "queueing" /\ a.s = s /\ CoordTo(p, a)
          BY <1>0, <3>1, <3>2 DEF AgentCoord
        <4> HIDE DEF a
        <4>2. coord'[p].pc = "queueing" /\ coord'[p].s = s
          BY <1>3, <4>1
        <4> QED
          BY <4>2 DEF SafeAfter, Served, Queueing
      <3>3. CASE coord[p].s # s
        <4>1. sessions'[s] = sessions[s]
          BY <1>0, <2>1, <3>1, <3>3, Written DEF SetStatus
        <4> QED
          BY <1>2, <1>4, <2>1, <3>1, <4>1, TurnsStay
      <3> QED
        BY <3>2, <3>3
    <2>3. CASE ~MayWake(coord[p].s)
      <3>1. sessions' = sessions /\ \E a : CoordTo(p, a)
        BY <1>9, <2>3 DEF WakeSession, CoordAt
      <3> QED
        BY <1>2, <1>4, <2>1, <3>1, TurnsStay
    <2> QED
      BY <2>2, <2>3
  <1>10. CASE QueueResume(p)
    <2>1. Enqueue(coord[p].s, "resume") /\ coord[p].s \in Sessions /\ sessions' = sessions
          /\ \E a : CoordTo(p, a)
      BY <1>0, <1>10 DEF QueueResume, CoordAt
    <2>2. CASE coord[p].s = s
      BY <1>0, <1>1, <2>1, <2>2, QueuedServes
    <2>3. CASE coord[p].s # s
      <3>1. SameTurns(s)
        BY <1>0, <2>1, <2>3, TurnQueuedAt, TurnsStay
      <3>2. \A q \in Procs \ {p} : coord'[q] = coord[q]
        BY <1>3, <2>1
      <3> QED
        BY <1>2, <2>1, <2>3, <3>1, <3>2
    <2> QED
      BY <2>2, <2>3
  <1>11. CASE CoordFault(p)
    <2>1. /\ sessions' = sessions /\ SameTurns(s) /\ \E a : CoordTo(p, a)
          /\ cut' = IF coord[p].pc = "queueing" THEN cut \cup {coord[p].s} ELSE cut
      BY <1>11, TurnsStay DEF CoordFault, CoordAt, rows
    <2>2. CASE coord[p].pc = "queueing" /\ coord[p].s = s
      BY <2>1, <2>2 DEF SafeAfter
    <2>3. CASE ~(coord[p].pc = "queueing" /\ coord[p].s = s)
      <3>1. \A q \in Procs \ {p} : coord'[q] = coord[q]
        BY <1>3, <2>1
      <3> QED
        BY <1>2, <2>1, <2>3, <3>1
    <2> QED
      BY <2>2, <2>3
  <1> QED
    BY <1>6, <1>7, <1>8, <1>9, <1>10, <1>11 DEF CoordStep

LEMMA SweepServed ==
    ASSUME ServedInv, [SessionNext]_sessionVars, NEW p \in Procs, SweepStep(p) \/ SweepFault(p) \/ Boot(p),
           NEW s \in Sessions
    PROVE  SafeAfter(s)
  <1>0. /\ SessionInv /\ SlotsHold /\ RunningIsServed /\ cut \subseteq cut'
        /\ sessions[s] \in AgentSession /\ DOMAIN sweep = Procs
    BY CutGrows DEF ServedInv, SessionInv, SessionsGood, RestGood
  <1>1. slot' = slot /\ coord' = coord /\ member' = member
    BY DEF SweepStep, SweepTurns, SweepSession, SweepFault, Boot
  <1>2. Queueing(s)' <=> Queueing(s)
    BY <1>1 DEF Queueing
  <1>3. ASSUME SameTurns(s), sessions'[s].cancelled = sessions[s].cancelled,
               sessions'[s].status = "running" => sessions[s].status = "running",
               \A q \in Procs : s \in sweep[q] => s \in sweep'[q]
        PROVE  SafeAfter(s)
    BY <1>0, <1>1, <1>2, <1>3, RestStays, ServedStays
  <1>4. CASE SweepTurns(p)
    <2>1. CASE \E i \in DOMAIN jobs[s] : Exhausted(jobs[s][i])
      <3>1. s \in sweep'[p]
        BY <1>0, <1>4, <2>1 DEF SweepTurns
      <3> QED
        BY <3>1 DEF SafeAfter, Served
    <2>2. CASE ~\E i \in DOMAIN jobs[s] : Exhausted(jobs[s][i])
      <3>1. jobs'[s] = [i \in DOMAIN jobs[s] |->
              IF ~Exhausted(jobs[s][i]) THEN jobs[s][i]
              ELSE [jobs[s][i] EXCEPT !.status = "failed", !.owner = Nobody, !.live = FALSE]]
        BY <1>4 DEF SweepTurns
      <3>2. SameTurns(s)
        BY <2>2, <3>1 DEF SameTurns
      <3>3. \A q \in Procs : s \in sweep[q] => s \in sweep'[q]
        BY <1>0, <1>4 DEF SweepTurns
      <3> QED
        BY <1>3, <1>4, <3>2, <3>3 DEF SweepTurns
    <2> QED
      BY <2>1, <2>2
  <1>5. CASE SweepSession(p)
    <2>1. PICK z \in sweep[p] :
            /\ IF sessions[z].status = "running" THEN Fail(z) ELSE UNCHANGED sessions
            /\ sweep' = [sweep EXCEPT ![p] = sweep[p] \ {z}]
      BY <1>5 DEF SweepSession
    <2>2. z \in Sessions /\ jobs' = jobs
      BY <1>5 DEF SweepSession, ServedInv, SessionInv, RestGood
    <2>3. CASE z = s
      <3> DEFINE row == [sessions[s] EXCEPT !.status = "failed", !.waiting = Nobody]
      <3>1. row.status # "running"
        BY <1>0 DEF AgentSession
      <3>2. WriteSession(s, row) \/ (sessions' = sessions /\ sessions[s].status # "running")
        BY <2>1, <2>3 DEF Fail
      <3> HIDE DEF row
      <3>3. sessions'[s].status # "running"
        BY <1>0, <3>1, <3>2, Written
      <3> QED
        BY <3>3 DEF SafeAfter
    <2>4. CASE z # s
      <3>1. sessions'[s] = sessions[s]
        BY <1>0, <2>1, <2>2, <2>4, Written DEF Fail
      <3>2. \A q \in Procs : s \in sweep[q] => s \in sweep'[q]
        BY <1>0, <2>1, <2>4
      <3> QED
        BY <1>3, <2>2, <3>1, <3>2, TurnsStay
    <2> QED
      BY <2>3, <2>4
  <1>6. CASE SweepFault(p)
    <2>1. CASE s \in sweep[p]
      BY <1>6, <2>1 DEF SweepFault, SafeAfter
    <2>2. CASE s \notin sweep[p]
      <3>1. \A q \in Procs : s \in sweep[q] => s \in sweep'[q]
        BY <1>0, <1>6, <2>2 DEF SweepFault
      <3> QED
        BY <1>3, <1>6, <3>1, TurnsStay DEF SweepFault, rows
    <2> QED
      BY <2>1, <2>2
  <1>7. CASE Boot(p)
    <2>1. PICK old : sessions' = [z \in Sessions |->
            IF z \in old /\ sessions[z].status = "running" /\ ~OpenTurn(z)
            THEN [sessions[z] EXCEPT !.status = "failed"] ELSE sessions[z]]
      BY <1>7 DEF Boot
    <2>2. sessions'[s] = sessions[s] \/ sessions'[s] = [sessions[s] EXCEPT !.status = "failed"]
      BY <2>1
    <2>3. sessions'[s].status \in {sessions[s].status, "failed"}
          /\ sessions'[s].cancelled = sessions[s].cancelled
      BY <1>0, <2>2 DEF AgentSession
    <2> QED
      BY <1>3, <1>7, <2>3, TurnsStay DEF Boot
  <1> QED
    BY <1>4, <1>5, <1>6, <1>7 DEF SweepStep

(* The slots of a process that dies are gone: their turns are claimed      *)
(* again if they had them, and the sessions of the others are cut.         *)
LEMMA CrashServed ==
    ASSUME ServedInv, [SessionNext]_sessionVars, NEW p \in Procs, Crash(p), NEW s \in Sessions
    PROVE  SafeAfter(s)
  <1>0. /\ SessionInv /\ SlotsHold /\ TurnsOwned /\ RunningIsServed /\ cut \subseteq cut'
        /\ DOMAIN sweep = Procs
    BY CutGrows DEF ServedInv, SessionInv, RestGood
  <1>1. /\ sessions' = sessions /\ jobs' = jobs /\ member' = member
        /\ \A v \in Workers : slot'[v] = IF OwnerOf(v) = p THEN IdleSlot ELSE slot[v]
        /\ \A q \in Procs \ {p} : coord'[q] = coord[q] /\ sweep'[q] = sweep[q]
    <2>1. \A q \in Procs \ {p} : coord'[q] = coord[q]
      BY <1>0, Written DEF Crash
    <2> QED
      BY <1>0, <2>1 DEF Crash, rows
  <1>2. \/ coord[p].pc = "queueing" /\ coord[p].s = s
        \/ s \in sweep[p]
        \/ /\ sessions[s].status = "running"
           /\ \E w \in Workers : OwnerOf(w) = p /\ slot[w].pc # "idle" /\ slot[w].s = s
                                 /\ ~Owns(w) /\ ~Leaving(w)
        => s \in cut'
    BY DEF Crash
  <1>3. SUFFICES ASSUME Served(s), sessions[s].status = "running", s \notin cut' PROVE Served(s)'
    BY <1>0, <1>1 DEF SafeAfter, RunningIsServed
  <1>4. CASE Queueing(s)
    BY <1>1, <1>2, <1>3, <1>4 DEF Queueing, Served
  <1>5. ASSUME NEW i \in DOMAIN jobs[s], Serving(s, i) PROVE Served(s)'
    <2>1. ASSUME NEW v \in Workers, slot'[v].pc # "idle", slot'[v].s = s, slot'[v].turn = i,
                 jobs'[s][i].owner = OwnerOf(v), Leaving(v)'
          PROVE  FALSE
      <3>1. slot'[v] = slot[v]
        BY <1>1, <2>1 DEF IdleSlot
      <3>2. Leaving(v)
        BY <1>1, <2>1, <3>1 DEF Leaving
      <3> QED
        BY <1>1, <1>5, <2>1, <3>1, <3>2 DEF Serving, Owns, Turn
    <2>2. Serving(s, i)'
      BY <1>1, <1>5, <2>1 DEF Serving, Open, Owns, Turn
    <2> QED
      BY <1>1, <2>2 DEF Served
  <1>6. ASSUME NEW w \in Workers, slot[w].pc # "idle", slot[w].s = s, ~Leaving(w) PROVE Served(s)'
    <2>1. CASE OwnerOf(w) # p
      <3>1. slot'[w] = slot[w]
        BY <1>1, <2>1
      <3>2. ~Leaving(w)'
        BY <1>1, <1>6, <3>1 DEF Leaving
      <3> QED
        BY <1>6, <3>1, <3>2 DEF Served
    <2>2. CASE OwnerOf(w) = p
      <3>0. PICK i \in DOMAIN jobs[s] : i = slot[w].turn
        BY <1>0, <1>6 DEF SlotsHold
      <3>1. Owns(w)
        BY <1>2, <1>3, <1>6, <2>2
      <3>2. i \in DOMAIN jobs[s] /\ jobs[s][i].owner = p /\ p # Nobody
        BY <1>6, <2>2, <3>0, <3>1, SessionAssumption DEF Owns, Turn, SessionAssumption
      <3>3. jobs[s][i].status = "leased"
        BY <1>0, <3>2 DEF TurnsOwned
      <3>4. ASSUME NEW v \in Workers, slot'[v].pc # "idle", jobs'[s][i].owner = OwnerOf(v)
            PROVE  FALSE
        BY <1>1, <3>2, <3>4 DEF IdleSlot
      <3>5. \A v \in Workers : slot'[v].pc # "idle" /\ slot'[v].s = s /\ slot'[v].turn = i => ~Owns(v)'
        BY <3>4 DEF Owns, Turn
      <3>6. Serving(s, i)'
        BY <1>1, <3>3, <3>5 DEF Serving, Open
      <3> QED
        BY <1>1, <3>2, <3>6 DEF Served
    <2> QED
      BY <2>1, <2>2
  <1>7. CASE \E q \in Procs : s \in sweep[q]
    BY <1>1, <1>2, <1>3, <1>7 DEF Served
  <1> QED
    BY <1>3, <1>4, <1>5, <1>6, <1>7 DEF Served

-----------------------------------------------------------------------------
LEMMA ElsewhereServed ==
    ASSUME ServedInv, [SessionNext]_sessionVars, Elsewhere, NEW s \in Sessions
    PROVE  SafeAfter(s)
  <1>0. SessionInv /\ RunningIsServed /\ cut \subseteq cut'
    BY CutGrows DEF ServedInv
  <1>1. slot' = slot /\ coord' = coord /\ member' = member /\ sweep' = sweep /\ sessions' = sessions
    BY DEF Elsewhere, Progress, TurnExpires, WorkerStalls, actors
  <1>2. Queueing(s)' <=> Queueing(s)
    BY <1>1 DEF Queueing
  <1>3. SameTurns(s)
    <2>1. CASE jobs' = jobs
      BY <2>1, TurnsStay
    <2>2. ASSUME NEW z \in Sessions, NEW i \in DOMAIN jobs[z], Lapse(z, i) PROVE SameTurns(s)
      <3> DEFINE t == [jobs[z][i] EXCEPT !.live = FALSE]
      <3>1. jobs[z][i] \in TurnJob
        BY <1>0, TurnsHeld DEF SessionInv
      <3>2. t.status = jobs[z][i].status /\ t.owner = jobs[z][i].owner /\ t.attempts = jobs[z][i].attempts
        BY <3>1 DEF TurnJob
      <3>3. WriteTurn(z, i, t)
        BY <2>2 DEF Lapse
      <3> HIDE DEF t
      <3> QED
        BY <1>0, <3>2, <3>3, TurnWrittenAt DEF SameTurns
    <2> QED
      BY <2>1, <2>2 DEF Elsewhere, Progress, TurnExpires, WorkerStalls
  <1> QED
    BY <1>0, <1>1, <1>2, <1>3, RestStays, ServedStays

LEMMA ServedInitial == SessionInit => ServedInv
  <1> SUFFICES ASSUME SessionInit PROVE ServedInv
    OBVIOUS
  <1>1. \A s \in Sessions : sessions[s].status = "idle" /\ DOMAIN jobs[s] = {}
    BY DEF SessionInit
  <1>2. \A w \in Workers : slot[w].pc = "idle"
    BY DEF SessionInit, IdleSlot
  <1> QED
    BY <1>1, <1>2, SessionInitial DEF ServedInv, TurnsOwned, SlotsHold, RunningIsServed

LEMMA ServedStep == ServedInv /\ [SessionNext]_sessionVars => ServedInv'
  <1> SUFFICES ASSUME ServedInv, [SessionNext]_sessionVars PROVE ServedInv'
    OBVIOUS
  <1>1. SessionInv' /\ TurnsOwned' /\ SlotsHold'
    BY SessionStep, TurnsOwnedStep, SlotsHoldStep DEF ServedInv
  <1>2. ASSUME NEW s \in Sessions PROVE SafeAfter(s)
    <2>1. ASSUME NEW p \in Procs, ProcActs(p) PROVE SafeAfter(s)
      BY <2>1, CoordServed, SweepServed, CrashServed DEF ProcActs
    <2>2. CASE UNCHANGED sessionVars
      <3>1. Queueing(s)' <=> Queueing(s)
        BY <2>2 DEF Queueing, sessionVars
      <3> QED
        BY <2>2, <3>1, TurnsStay, RestStays, ServedStays DEF ServedInv, sessionVars
    <2> QED
      BY <2>1, <2>2, MemberServed, SlotServed, ElsewhereServed, Actors
  <1>3. RunningIsServed'
    BY <1>2 DEF RunningIsServed, SafeAfter
  <1> QED
    BY <1>1, <1>3 DEF ServedInv

(* workbench.ts:1929 and agent-jobs.ts:122: whatever slots, neighbours,    *)
(* requests, coordinators, sweeps, crashes and restarts do to each other,  *)
(* a session that is running has somebody to end it, unless a statement    *)
(* was lost.                                                               *)
THEOREM ServedSafe == SessionSpec => []RunningIsServed
  <1>1. ServedInv => RunningIsServed
    BY DEF ServedInv
  <1> QED
    BY <1>1, ServedInitial, ServedStep, PTL DEF SessionSpec
=============================================================================
