----------------------------- MODULE Dashboard -----------------------------
(***************************************************************************)
(* The dashboard and the assistant (tui.rs, assistant.rs; `ask` and        *)
(* `ask --json` of main.rs).  `program` says which command was started:    *)
(* "top" the dashboard with its Ask panel, "ask" the plain question,       *)
(* "json" the question answered as events.                                 *)
(*                                                                         *)
(* The dashboard is one loop: drain what the panel's worker sent, draw,    *)
(* then handle one key or, when none came in time, read the status file    *)
(* again.  The worker is a thread that runs a test, looks for a model and  *)
(* streams its reply over a channel; closing the panel drops the receiving *)
(* end, and nothing that worker still sends is ever seen.                  *)
(*                                                                         *)
(* Text is left out.  A question, its test results and the reply are known *)
(* by the turn they belong to, what is typed by what Enter makes of it, a  *)
(* reply by its ACTION lines, the status file by the bans it lists.  What  *)
(* the commands do once they run belongs to the other modules.             *)
(*                                                                         *)
(* ToolsProofs reasons about this module and Doctor side by side, so the   *)
(* names both would have (Init, Next, Spec) begin with Dashboard here.     *)
(***************************************************************************)
EXTENDS Integers, FiniteSets, Sequences, SequencesExt

CONSTANTS
  Changes,      \* actions on the allowlist that change something
  Tests,        \* live tests, read-only
  Lines,        \* what an ACTION line may say: any of these, or something else
  Replies,      \* ACTION lines of a model's answer
  Advice,       \* fixes the doctor proposes when there is no model
  StatusFiles,  \* lists of bans, [ip, source], the daemon may publish
  MaxSel,       \* bound: rows the selection steps past the end of the table
  MaxTurns,     \* bound: questions and tests per run
  MaxWrites     \* bound: writes of the status file

Actions == Changes \cup Tests
Bans == UNION {ToSet(s) : s \in StatusFiles}

ASSUME DashboardAssumption ==
  /\ Changes \cap Tests = {} /\ Actions \subseteq Lines
  /\ Replies \subseteq Seq(Lines) /\ Advice \subseteq Seq(Changes)
  /\ StatusFiles \subseteq Seq(Bans) /\ \A s \in StatusFiles : Len(s) < MaxSel
  /\ MaxSel \in Nat /\ MaxTurns \in Nat /\ MaxWrites \in Nat

NoStatus == [running |-> FALSE, bans |-> <<>>]
Status(bans) == [running |-> TRUE, bans |-> bans]
Statuses == {Status(b) : b \in StatusFiles} \cup {NoStatus}

\* What Enter finds in the input line: nothing, a question, /test with a known
\* name, /test with an unknown one
Texts == {"question", "test", "badtest"}
Said(role, what, t) == [role |-> role, what |-> what, turn |-> t]
Closed == [open |-> FALSE, input |-> "nothing", history |-> <<>>, raw |-> <<>>,
           streaming |-> FALSE, current |-> FALSE, actions |-> <<>>,
           confirm |-> 0, testing |-> FALSE]
NewChat == [Closed EXCEPT !.open = TRUE]
NotAsking == [st |-> "none", kind |-> "ask", turn |-> 0, raw |-> <<>>]
NoCommand == [name |-> "none"]

VARIABLES
  program,   \* the command that was started
  pc,        \* dashboard: "frame" (drain and draw) or "wait" (key or timeout)
  file,      \* the status file
  status,    \* dashboard: the status it read last
  sel,       \* dashboard: selected row of the ban table, 0 for none
  prompt,    \* dashboard: "none", or what the ban prompt holds
  chat,      \* the Ask panel
  asking,    \* its thread
  mail,      \* the channel from the worker to the panel
  json,      \* `ask` and `ask --json`: where it is, what it told the model, its events
  turns,     \* turns so far
  writes,    \* writes of the status file (bound)
  drawn,     \* ghost: the ban the last frame highlighted
  picked,    \* ghost: the action a digit picked, waiting for y
  given,     \* ghost: turn -> the conversation the model was given
  ran        \* ghost: the command the last key carried out

screen == <<pc, status, sel, prompt, chat, drawn, picked, ran>>
thread == <<asking, mail, given>>
dashVars == <<program, screen, thread, file, json, turns, writes>>

Entry == [role : {"user", "test", "assistant"}, turn : Nat,
          what : {"ask", "question", "test", "results", "done", "offline", "error"}]
Chat == [open : BOOLEAN, input : Texts \cup {"nothing"}, history : Seq(Entry), raw : Seq(Entry),
         streaming : BOOLEAN, current : BOOLEAN, actions : Seq(Actions), confirm : 0 .. 9,
         testing : BOOLEAN]
Thread == [st : {"none", "test", "detect", "stream", "end"}, kind : {"ask", "test"}, turn : Nat,
           raw : Seq(Entry)]
Message == [type : {"tests", "chunk", "idle", "done", "offline", "error"}, turn : Nat,
            actions : Seq(Actions)]
Json == [st : {"start", "test", "reply", "end"}, model : BOOLEAN, asked : BOOLEAN,
         history : Seq(Entry), events : Seq({"model", "tests", "done", "error"}),
         offered : Seq(Actions)]

DashboardTypeOK ==
  /\ program \in {"top", "ask", "json"} /\ pc \in {"frame", "wait", "quit"}
  /\ file \in Statuses /\ status \in Statuses
  /\ sel \in 0 .. MaxSel
  /\ prompt \in {"none", "empty", "source", "junk"}
  /\ chat \in Chat /\ (chat.testing => chat.streaming)
  /\ asking \in Thread
  /\ mail \in Seq(Message) /\ Len(mail) <= 3 /\ (mail # <<>> => chat.streaming)
  /\ given \in Seq([turn : Nat, raw : Seq(Entry)])
  /\ json \in Json
  /\ turns \in 0 .. MaxTurns /\ writes \in 0 .. MaxWrites

DashboardInit ==
  /\ program \in {"top", "ask", "json"}
  /\ pc = "frame"
  /\ file \in Statuses /\ status = file
  /\ sel = IF status.bans = <<>> THEN 0 ELSE 1
  /\ prompt = "none"
  /\ chat \in {Closed, NewChat}
  /\ asking = NotAsking /\ mail = <<>>
  /\ json = [st |-> "start", model |-> FALSE, asked |-> FALSE, history |-> <<>>,
             events |-> <<>>, offered |-> <<>>]
  /\ turns = 0 /\ writes = 0
  /\ drawn = NoCommand
  /\ picked = "none" /\ given = <<>> /\ ran = NoCommand

-----------------------------------------------------------------------------
(* What a reply offers *)

\* The elements of a sequence at the positions P, in their order
Kept(s, P) ==
  LET at == CHOOSE f \in [1 .. Cardinality(P) -> P] : \A i, j \in DOMAIN f : i < j => f[i] < f[j]
  IN [k \in 1 .. Cardinality(P) |-> s[at[k]]]

\* The allowlist: any other ACTION line is ignored, and so is a repeated one
ParseActions(lines) ==
  Kept(lines, {i \in DOMAIN lines : /\ lines[i] \in Actions
                                    /\ \A j \in 1 .. i - 1 : lines[j] # lines[i]})

AsksForTests(offered) == \E i \in DOMAIN offered : offered[i] \in Tests
OnlyChanges(offered) == Kept(offered, {i \in DOMAIN offered : offered[i] \in Changes})

-----------------------------------------------------------------------------
(* The panel's worker *)

Post(type, actions) ==
  mail' = Append(mail, [type |-> type, turn |-> asking.turn, actions |-> actions])
ToPanel == UNCHANGED <<program, screen, file, json, turns, writes>>

RunTests ==
  /\ asking.st = "test"
  /\ Post("tests", <<>>)
  /\ asking' = [asking EXCEPT !.st = "detect"]
  /\ UNCHANGED given /\ ToPanel

\* A model on this machine answers: the conversation goes to it, with the
\* results of the test that was just run
ModelFound ==
  /\ asking.st = "detect"
  /\ asking' = [asking EXCEPT !.st = "stream",
                              !.raw = IF asking.kind = "test"
                                      THEN Append(@, Said("user", "results", asking.turn))
                                      ELSE @]
  /\ given' = Append(given, [turn |-> asking.turn, raw |-> asking'.raw])
  /\ UNCHANGED mail /\ ToPanel

NoModel ==
  /\ asking.st = "detect"
  /\ asking' = [asking EXCEPT !.st = "end"]
  /\ IF asking.kind = "test"
     THEN Post("idle", <<>>)
     ELSE \E a \in Advice : Post("offline", a)
  /\ UNCHANGED given /\ ToPanel

\* Pieces of the reply; one that is still unread stands for all of them
Chunk ==
  /\ asking.st = "stream"
  /\ ~\E i \in DOMAIN mail : mail[i].type = "chunk"
  /\ Post("chunk", <<>>)
  /\ UNCHANGED <<asking, given>> /\ ToPanel

\* The reply is complete, or the connection broke or the server reported an error
Replied ==
  /\ asking.st = "stream"
  /\ asking' = [asking EXCEPT !.st = "end"]
  /\ \E r \in Replies : Post("done", ParseActions(r))
  /\ UNCHANGED given /\ ToPanel

ModelFails ==
  /\ asking.st = "stream"
  /\ asking' = [asking EXCEPT !.st = "end"]
  /\ Post("error", <<>>)
  /\ UNCHANGED given /\ ToPanel

AskThread == RunTests \/ ModelFound \/ NoModel \/ Chunk \/ Replied \/ ModelFails

-----------------------------------------------------------------------------
(* The panel *)

FinishSlip(c, m, offered) ==
  [c EXCEPT !.actions = offered,
            !.history = Append(@, Said("assistant", m.type, m.turn)),
            !.raw = Append(@, Said("assistant", m.type, m.turn)),
            !.current = FALSE]

\* The answer replaces the actions and ends the turn
Finish(c, m, offered) ==
  [c EXCEPT !.actions = offered,
            !.history = Append(@, Said("assistant", m.type, m.turn)),
            !.raw = Append(@, Said("assistant", m.type, m.turn)),
            !.current = FALSE, !.streaming = FALSE]

ResultsLate(c, m) ==
  [c EXCEPT !.raw = Append(@, Said("user", "results", m.turn)),
            !.history = Append(@, Said("test", "results", m.turn))]

ResultsSlip(c, m) ==
  [c EXCEPT !.testing = FALSE,
            !.history = Append(@, Said("test", "results", m.turn))]

\* Test results are told to the panel and kept for the model
Results(c, m) ==
  [c EXCEPT !.testing = FALSE,
            !.raw = Append(@, Said("user", "results", m.turn)),
            !.history = Append(@, Said("test", "results", m.turn))]

Receive(c, m) ==
  CASE m.type = "chunk" -> [c EXCEPT !.current = TRUE]
    [] m.type = "tests" -> Results(c, m)
    [] m.type = "idle" -> [c EXCEPT !.testing = FALSE, !.streaming = FALSE]
    [] m.type \in {"done", "offline", "error"} -> Finish(c, m, m.actions)

\* The end of the ban table the drawing library moves the selection back to
Clamp(i, s) == IF i > Len(s.bans) THEN Len(s.bans) ELSE i

\* Draining the channel takes one message after the other, while the worker goes on
Poll ==
  /\ program = "top" /\ pc = "frame" /\ mail # <<>>
  /\ chat' = Receive(chat, Head(mail))
  /\ mail' = Tail(mail)
  /\ UNCHANGED <<program, pc, status, sel, prompt, drawn, picked, ran, asking, given, file, json,
                 turns, writes>>

\* Once it is empty, draw: the panel or the ban table, neither when there is no status
Frame ==
  /\ program = "top" /\ pc = "frame" /\ mail = <<>>
  /\ sel' = IF status.running /\ ~chat.open /\ status.bans # <<>> THEN Clamp(sel, status) ELSE sel
  /\ drawn' = IF status.running /\ ~chat.open /\ sel' \in DOMAIN status.bans
              THEN status.bans[sel'] ELSE NoCommand
  /\ pc' = "wait"
  /\ UNCHANGED <<program, status, prompt, chat, picked, ran, thread, file, json, turns, writes>>

\* Reading the status file again keeps the selected row where it is, within the list
Refreshed(s, i) ==
  [status |-> s,
   sel |-> IF ~s.running THEN i
           ELSE IF s.bans = <<>> THEN 0
           ELSE IF i = 0 THEN 1
           ELSE Clamp(i, s)]

Refresh ==
  /\ program = "top" /\ pc = "wait"
  /\ status' = Refreshed(file, sel).status
  /\ sel' = Refreshed(file, sel).sel
  /\ pc' = "frame"
  /\ UNCHANGED <<program, prompt, chat, drawn, picked, ran, thread, file, json, turns, writes>>

-----------------------------------------------------------------------------
(* Keys, with the panel open *)

\* Every key is handled once per frame; what it leaves alone and what it ran
Key(command) ==
  /\ program = "top" /\ pc = "wait" /\ pc' = "frame"
  /\ ran' = command
  /\ UNCHANGED <<program, file, json, writes, drawn>>

\* The key after a digit answers the y / n, whatever it is
AnyKeyAnswers == picked' = "none" /\ chat' = [chat EXCEPT !.confirm = 0]

Confirm ==
  /\ chat.open /\ chat.confirm \in DOMAIN chat.actions
  /\ AnyKeyAnswers
  /\ status' = Refreshed(file, sel).status /\ sel' = Refreshed(file, sel).sel
  /\ Key([name |-> "action", what |-> chat.actions[chat.confirm], picked |-> picked])
  /\ UNCHANGED <<prompt, thread, turns>>

Decline ==
  /\ chat.open /\ chat.confirm # 0
  /\ AnyKeyAnswers
  /\ Key(NoCommand)
  /\ UNCHANGED <<status, sel, prompt, thread, turns>>

\* A key in the panel while nothing waits for y or n
PanelKey ==
  /\ chat.open /\ chat.confirm = 0
  /\ UNCHANGED <<status, sel, prompt>>

StartTurnSlip(kind, c) ==
  /\ turns < MaxTurns /\ turns' = turns + 1
  /\ chat' = [c EXCEPT !.input = "nothing", !.confirm = 0, !.current = FALSE,
                       !.history = Append(@, Said("user", kind, turns')),
                       !.streaming = TRUE]
  /\ asking' = [st |-> IF kind = "test" THEN "test" ELSE "detect", kind |-> kind,
                turn |-> turns', raw |-> chat'.raw]
  /\ mail' = <<>>
  /\ UNCHANGED <<given, picked>>

\* A turn: the worker gets a copy of the conversation and a channel of its own
StartTurn(kind, c) ==
  /\ turns < MaxTurns /\ turns' = turns + 1
  /\ chat' = [c EXCEPT !.input = "nothing", !.actions = <<>>, !.confirm = 0, !.current = FALSE,
                       !.history = Append(@, Said("user", kind, turns')),
                       !.streaming = TRUE]
  /\ asking' = [st |-> IF kind = "test" THEN "test" ELSE "detect", kind |-> kind,
                turn |-> turns', raw |-> chat'.raw]
  /\ mail' = <<>>
  /\ UNCHANGED <<given, picked>>

Send ==
  /\ PanelKey /\ chat.input = "question" /\ ~chat.streaming
  /\ StartTurn("ask", [chat EXCEPT !.raw = Append(@, Said("user", "question", turns + 1))])
  /\ Key(NoCommand)

RunTest ==
  StartTurn("test", [chat EXCEPT !.testing = TRUE])

TypedTest ==
  /\ PanelKey /\ chat.input = "test" /\ ~chat.streaming
  /\ RunTest
  /\ Key(NoCommand)

\* Enter while a reply streams: a question is taken from the line and lost, a
\* test stays typed; an unknown test and an empty line do nothing else
Enter ==
  /\ PanelKey /\ (chat.streaming \/ chat.input \in {"nothing", "badtest"})
  /\ chat' = [chat EXCEPT !.input = IF chat.input = "test" THEN @ ELSE "nothing"]
  /\ Key(NoCommand)
  /\ UNCHANGED <<thread, picked, turns>>

\* A digit in an empty line picks an action; tests run at once
PickTest(i) ==
  /\ PanelKey /\ chat.input = "nothing" /\ i \in DOMAIN chat.actions
  /\ chat.actions[i] \in Tests /\ ~chat.streaming
  /\ RunTest
  /\ Key([name |-> "test"])

PickChange(i) ==
  /\ PanelKey /\ chat.input = "nothing" /\ i \in DOMAIN chat.actions
  /\ chat.actions[i] \notin Tests
  /\ chat' = [chat EXCEPT !.confirm = i] /\ picked' = chat.actions[i]
  /\ Key(NoCommand)
  /\ UNCHANGED <<thread, turns>>

\* Anything else is typed; a line is emptied with Backspace
Type ==
  /\ PanelKey /\ \E text \in Texts \cup {"nothing"} : chat' = [chat EXCEPT !.input = text]
  /\ Key(NoCommand)
  /\ UNCHANGED <<thread, picked, turns>>

\* Esc drops the panel, and with it the receiving end of the channel
ClosePanel ==
  chat' = Closed /\ asking' = NotAsking /\ mail' = <<>> /\ given' = <<>>

Esc ==
  /\ PanelKey
  /\ ClosePanel
  /\ Key(NoCommand)
  /\ UNCHANGED <<picked, turns>>

PanelKeys ==
  \/ Confirm \/ Decline \/ Send \/ TypedTest \/ Enter \/ Type \/ Esc
  \/ \E i \in 1 .. 9 : PickTest(i) \/ PickChange(i)

-----------------------------------------------------------------------------
(* Keys of the ban prompt and of the dashboard *)

BanPrompt ==
  /\ ~chat.open /\ prompt # "none"
  /\ prompt' \in {"none", "empty", "source", "junk"}
  /\ Key(IF prompt = "source" /\ prompt' = "none" THEN [name |-> "ban"] ELSE NoCommand)
  /\ UNCHANGED <<status, sel, chat, thread, picked, turns>>

BoardKey == ~chat.open /\ prompt = "none"

\* The table's selection may step past the last row until it is drawn
Move ==
  /\ BoardKey
  /\ \/ sel < MaxSel /\ sel' = sel + 1
     \/ sel' = IF sel = 0 THEN MaxSel ELSE IF sel = 1 THEN 1 ELSE sel - 1
  /\ Key(NoCommand)
  /\ UNCHANGED <<status, prompt, chat, thread, picked, turns>>

\* A ban of the config file is refused
Unban ==
  /\ BoardKey
  /\ Key(IF sel \in DOMAIN status.bans /\ status.bans[sel].source # "config"
         THEN [name |-> "unban", what |-> status.bans[sel], picked |-> drawn]
         ELSE NoCommand)
  /\ UNCHANGED <<status, sel, prompt, chat, thread, picked, turns>>

Other ==
  /\ BoardKey
  /\ \/ prompt' = "empty" /\ UNCHANGED chat /\ Key(NoCommand)
     \/ chat' = NewChat /\ UNCHANGED prompt /\ Key(NoCommand)
     \/ UNCHANGED <<chat, prompt>> /\ Key([name |-> "reload"])
  /\ UNCHANGED <<status, sel, thread, picked, turns>>

Quit ==
  /\ program = "top" /\ pc = "wait" /\ pc' = "quit"
  /\ UNCHANGED <<program, status, sel, prompt, chat, drawn, picked, ran, thread, file, json,
                 turns, writes>>

BoardKeys == BanPrompt \/ Move \/ Unban \/ Other

\* The daemon writes its status, stops or starts
DaemonWrites ==
  /\ program = "top" /\ writes < MaxWrites /\ writes' = writes + 1
  /\ file' \in Statuses \ {file}
  /\ UNCHANGED <<program, screen, thread, json, turns>>

-----------------------------------------------------------------------------
(* `ask --json`: events on standard output *)

Emit(type) == Append(json.events, type)
JsonStep == UNCHANGED <<program, screen, thread, file, turns, writes>>

\* An empty question and an unknown test end at once; /test runs before the
\* model is asked; without a model a question gets the doctor's findings
JsonStart ==
  /\ program = "json" /\ json.st = "start"
  /\ \E text \in Texts \cup {"nothing"}, model \in BOOLEAN :
       LET events == IF model THEN <<"model">> ELSE <<>> IN
       \/ /\ text = "nothing"
          /\ json' = [json EXCEPT !.st = "end", !.events = <<"error">>]
       \/ /\ text = "badtest"
          /\ json' = [json EXCEPT !.st = "end", !.events = Append(events, "error")]
       \/ /\ text = "test"
          /\ json' = [json EXCEPT !.st = "test", !.model = model, !.events = events]
       \/ /\ text = "question" /\ model
          /\ json' = [json EXCEPT !.st = "reply", !.model = TRUE, !.events = events,
                                  !.history = <<Said("user", "question", 1)>>]
       \/ /\ text = "question" /\ ~model
          /\ \E a \in Advice :
               json' = [json EXCEPT !.st = "end", !.events = <<"done">>, !.offered = a]
  /\ JsonStep

JsonTest ==
  /\ program = "json" /\ json.st = "test"
  /\ json' = [json EXCEPT !.st = IF json.model THEN "reply" ELSE "end",
                          !.history = Append(@, Said("user", "results", 1)),
                          !.events = Emit("tests") \o (IF json.model THEN <<>> ELSE <<"done">>)]
  /\ JsonStep

TestedSlip == json.asked

Tested == \E i \in DOMAIN json.history : json.history[i].what = "results"

\* The model's first reply may ask for tests, which then run once; what it asks
\* for after that is dropped
JsonReply ==
  /\ program = "json" /\ json.st = "reply"
  /\ \/ json' = [json EXCEPT !.st = "end", !.events = Emit("error")]
     \/ \E r \in Replies :
          LET offered == ParseActions(r) IN
          IF ~Tested /\ AsksForTests(offered)
          THEN json' = [json EXCEPT !.st = "test", !.asked = TRUE,
                                    !.history = Append(@, Said("assistant", "done", 1))]
          ELSE json' = [json EXCEPT !.st = "end", !.events = Emit("done"),
                                    !.offered = IF json.asked THEN OnlyChanges(offered)
                                                ELSE offered]
  /\ JsonStep

\* The plain command prints the reply and the commands to run by hand
Ask ==
  /\ program = "ask" /\ json.st = "start"
  /\ \/ json' = [json EXCEPT !.st = "end", !.events = <<"error">>]
     \/ \E r \in Replies : json' = [json EXCEPT !.st = "end", !.events = <<"done">>,
                                                 !.offered = ParseActions(r)]
     \/ \E a \in Advice : json' = [json EXCEPT !.st = "end", !.events = <<"done">>,
                                                !.offered = a]
  /\ JsonStep

-----------------------------------------------------------------------------
Dashboard == Poll \/ Frame \/ Refresh
Command == JsonStart \/ JsonTest \/ JsonReply \/ Ask

\* The program has ended
Ended == (pc = "quit" \/ json.st = "end") /\ UNCHANGED dashVars

DashboardNext ==
  \/ Dashboard \/ AskThread \/ PanelKeys \/ BoardKeys \/ Quit \/ DaemonWrites \/ Command \/ Ended

\* The loop comes round whether keys are pressed or not, and every wait of the
\* worker has a timeout
DashboardSpec ==
  /\ DashboardInit /\ [][DashboardNext]_dashVars
  /\ WF_dashVars(Poll \/ Frame) /\ WF_dashVars(Refresh \/ PanelKeys)
  /\ WF_dashVars(AskThread /\ asking' # asking)
  /\ WF_dashVars(Command)

-----------------------------------------------------------------------------
(* Properties *)

\* What a key carries out is what the screen said it would: the highlighted ban
\* is lifted, never one of the config file (tui.rs `u`); a change the assistant
\* proposed is on the allowlist and is the very one a digit picked before the y,
\* however answers and list refreshes interleave with the keys.
NothingRunsUnasked ==
  /\ ran.name \in {"unban", "action"} => ran.what = ran.picked
  /\ ran.name = "unban" => ran.what.source # "config"
  /\ ran.name = "action" => ran.what \in Changes

\* The model and the panel agree on the conversation: what the panel keeps in
\* front of a reply is exactly what the worker gave the model for it, test
\* results included, and a turn that is over has its one answer, test result or
\* both (tui.rs `run_test`, `poll`, which build the two copies separately).
OneConversation ==
  /\ \A i \in DOMAIN chat.raw : \A g \in ToSet(given) :
       (chat.raw[i].what = "done" /\ chat.raw[i].turn = g.turn) => g.raw = SubSeq(chat.raw, 1, i - 1)
  /\ \A i \in DOMAIN chat.history :
       LET h == chat.history[i]
           after == IF i < Len(chat.history) THEN chat.history[i + 1].role ELSE "none" IN
       h.role = "user" => after \in (IF h.what = "test" THEN {"test"} ELSE {"assistant"})
                            \cup (IF i = Len(chat.history) /\ chat.streaming THEN {"none"} ELSE {})

\* `ask --json` runs tests at most once for a question, tells the model their
\* results before its last reply, and ends its events with exactly one done or
\* error (main.rs `ask_json`: "one round per question").
OneRound ==
  /\ \A i, j \in DOMAIN json.events :
       json.events[i] = "tests" /\ json.events[j] = "tests" => i = j
  /\ \A i \in DOMAIN json.events : json.events[i] = "tests" =>
       \E j \in DOMAIN json.history : json.history[j].what = "results"
  /\ \A i \in DOMAIN json.events :
       json.events[i] \in {"done", "error"} <=> (json.st = "end" /\ i = Len(json.events))
  /\ json.st = "end" => json.events # <<>>
  /\ json.asked /\ json.st = "end" => ~AsksForTests(json.offered)

\* Whatever the model does, a turn of the panel ends: it answers, reports why
\* not, or the panel is closed.
TurnsEnd == chat.streaming ~> (~chat.streaming \/ pc = "quit")
=============================================================================
