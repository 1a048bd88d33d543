------------------------------ MODULE GroupChat ------------------------------
(***************************************************************************)
(* What a message of a group sets off in the plugin.  AstrBot hands it to  *)
(* the handlers that match: the command group of "/番剧" and of            *)
(* "资源详情", and the gateway that sees every message of a group.  A      *)
(* mention that none of them answers is left to the language model, which  *)
(* may call the read-only tool, and whose answer the policy guard checks.  *)
(* A search with several results leaves a numbered menu behind, and later  *)
(* messages pick from it.  Messages are handled concurrently, each from    *)
(* one database transaction to the next.                                   *)
(***************************************************************************)
EXTENDS Naturals, Sequences, FiniteSets, SequencesExt

CONSTANTS
  Messages, Users, Nobody, Shows, NoShow,
  Commands,   \* what messages say: see CommandsOK
  ToolCalls,  \* what the language model may ask of the tool
  Queries, Hits, Titled, \* the shows whose title has the text, or is the text
  OnAir,      \* the shows of a day, a week or a season
  Unsure,     \* the shows with a link to a source that is not confirmed
  Policies,   \* of the group, which its owner changes
  TTL,        \* ticks a menu lasts (5 minutes)
  MaxClock, MaxCalls, MaxChanges \* bounds: time, tool calls, changes from outside

ASSUME ChatConstants ==
  /\ {TTL, MaxClock, MaxCalls, MaxChanges} \subseteq Nat
  /\ NoShow \notin Shows /\ Nobody \notin Users /\ IsFiniteSet(Shows)
  /\ Hits \in [Queries -> SUBSET Shows] /\ Titled \in [Queries -> SUBSET Shows]
  /\ \A q \in Queries : Titled[q] \subseteq Hits[q]
  /\ OnAir \subseteq Shows /\ Unsure \subseteq Shows

\* what is asked of one show, and the rest; only a command can do the last two
AboutOne == {"detail", "subscribe", "unsubscribe", "settings"}
Acts == AboutOne \cup {"help", "search", "list", "mine", "chat", "pending"}

(* slash: the commands /番剧 and 资源详情; number: 0, or the number it picks; id: NoShow,
   or the show whose internal id it gives; otherwise it has a text *)
IsCommand(c) ==
  /\ {c.slash, c.mention, c.reply} \subseteq BOOLEAN /\ c.act \in Acts
  /\ c.query \in Queries \cup {""} /\ c.number \in Nat /\ c.id \in Shows \cup {NoShow}
  /\ c.slash => c.number = 0 /\ c.act # "chat"
  /\ c.act \in {"settings", "pending"} => c.slash
  /\ c.act = "settings" => c.id # NoShow
  /\ c.id # NoShow => c.act \in AboutOne /\ c.number = 0
  /\ c.number = 0 /\ c.id = NoShow /\ c.act \in AboutOne \cup {"search"} =>
       c.query \in Queries

(* the tool reads: it takes no subscription and no id, and a search has a text *)
IsToolCall(c) ==
  /\ IsCommand(c) /\ c.act \in {"search", "detail", "mine", "list"} /\ c.id = NoShow
  /\ c.number > 0 => c.act = "detail"

ASSUME CommandsOK ==
  (\A c \in Commands : IsCommand(c)) /\ (\A c \in ToolCalls : IsToolCall(c))

ASSUME PoliciesOK ==
  \A p \in Policies :
    /\ {p.passive, p.mention, p.shortcuts} \subseteq BOOLEAN
    /\ p.llm \in {"disabled", "anime_only", "general"}

VARIABLES
  legacy,     \* interaction_gateway_enabled: plain messages are commands too
  clock, changes, policy,
  adult, finished, \* shows that may not be shown, and that have ended
  follows,    \* follow_subscriptions
  menu,       \* interaction_sessions: one row for each user of the group
  msg,        \* the messages, and how far the handlers of each are
  turns,      \* LLMPolicyGuard._turns
  offered,    \* history: the menus that the searches of each user left behind
  reminded    \* history: shows a reminder was planned for, and whether adult

world == <<legacy, clock, changes, policy, adult, finished>>
vars == <<world, follows, menu, msg, turns, offered, reminded>>

NoMenu == [items |-> <<>>, expires |-> 0]
NoTurn == [general |-> FALSE, status |-> "gone"]
Chat == [slash |-> FALSE, mention |-> TRUE, reply |-> FALSE, act |-> "chat",
         query |-> "", number |-> 0, id |-> NoShow]

Unsent ==
  [stage |-> "unsent", user |-> Nobody, command |-> Chat,
   todo |-> {}, via |-> "none", at |-> 0, show |-> NoShow, items |-> <<>>,
   (* history: the shows that were adult when a handler began, those it named, the
      menu entry it took, answers, tool calls, what the last said, the model's leave
      to chat, and whether its own words were sent *)
   hidden |-> {}, named |-> {}, answers |-> 0, calls |-> 0, last |-> "none",
   free |-> FALSE, said |-> FALSE]

Init ==
  /\ legacy \in BOOLEAN /\ clock = 0 /\ changes = 0
  /\ policy \in Policies /\ adult = {} /\ finished = {}
  /\ follows = {} /\ menu = [u \in Users |-> NoMenu]
  /\ msg = [m \in Messages |-> Unsent] /\ turns = [m \in Messages |-> NoTurn]
  /\ offered = [u \in Users |-> {}] /\ reminded = {}

ScopeOfGroup(m) == CHOOSE u \in Users : TRUE
\* whose row of interaction_sessions a handler of the message reads and writes
Scope(m) == msg[m].user

TurnOfGroup(m) == CHOOSE n \in Messages : TRUE
\* the event a turn of the language model is kept under
Turn(m) == m
---------------------------------------------------------------------------
(* A message and the handlers that see it. *)

Arrive(m, u, c) ==
  /\ msg[m].stage = "unsent"
  /\ msg' = [msg EXCEPT ![m].stage = "queued", ![m].user = u, ![m].command = c,
                        ![m].todo = {"gateway"} \cup IF c.slash THEN {"command"} ELSE {}]
  /\ UNCHANGED <<world, follows, menu, turns, offered, reminded>>

Begin(r, handler, stage) ==
  [r EXCEPT !.stage = stage, !.via = handler, !.todo = @ \ {handler},
            !.at = clock, !.hidden = adult, !.show = r.command.id, !.items = <<>>]

\* a handler of AstrBot's pipeline yields; the gateway also stops the event
Replied(r, named) ==
  [r EXCEPT !.stage = "queued", !.answers = @ + 1, !.named = @ \cup named,
            !.todo = IF r.via = "gateway" THEN {} ELSE @]

\* the guard notes the result of the tool, if the event has a turn
Noted(turn, status) == [turn EXCEPT !.status = IF @ = "gone" THEN @ ELSE status]

ToolAnswer(m, status, named) ==
  /\ msg' = [msg EXCEPT ![m].stage = "turn", ![m].last = status, ![m].named = @ \cup named]
  /\ turns' = [turns EXCEPT ![Turn(m)] = Noted(@, status)]

ChatAnswer(m, named) ==
  /\ msg' = [msg EXCEPT ![m] = Replied(@, named)] /\ UNCHANGED turns

Answer(m, status, named) ==
  IF msg[m].via = "llm" THEN ToolAnswer(m, status, named) ELSE ChatAnswer(m, named)

IgnoresPlain(c) == ~legacy /\ ~c.mention
\* commands have handlers of their own; plain messages are not for the bot
Ignores(c) == c.slash \/ (~legacy /\ ~c.mention)

EnterGateway(m) ==
  /\ msg[m].stage = "queued" /\ "gateway" \in msg[m].todo
  /\ IF Ignores(msg[m].command)
       THEN msg' = [msg EXCEPT ![m].todo = @ \ {"gateway"}]
       ELSE msg' = [msg EXCEPT ![m] = Begin(@, "gateway", "route")]
  /\ UNCHANGED <<world, follows, menu, turns, offered, reminded>>

\* what the entries of the gateway understand: a mention, a bare number, a shortcut
MentionMeans(c) == c.act # "chat"
NumberMeans(c) == c.number > 0 /\ c.act = "detail"
ShortcutMeans(c) == c.act \in {"search", "subscribe", "unsubscribe", "mine", "list"}

Matched(c) ==
  IF policy.mention /\ c.mention
    THEN MentionMeans(c)
    ELSE legacy /\ ((c.reply /\ NumberMeans(c)) \/ (policy.shortcuts /\ ShortcutMeans(c)))

Pass(m) == msg' = [msg EXCEPT ![m].stage = "queued"]

Proceed(m) ==
  LET c == msg[m].command
  IN  msg' = [msg EXCEPT ![m] = IF c.act = "help" THEN Replied(@, {})
                                ELSE [@ EXCEPT !.stage = IF c.number > 0 THEN "pick"
                                                                         ELSE "look"]]

Route(m) ==
  /\ msg[m].stage = "route"
  /\ LET c == msg[m].command
     IN CASE ~policy.passive -> Pass(m)
          [] policy.passive /\ Matched(c) ->
               \/ Proceed(m)
               \/ msg' = [msg EXCEPT ![m] = Replied(@, {})] \* too fast: wait a little
          [] OTHER ->
               IF c.mention /\ policy.llm = "disabled"
                 THEN msg' = [msg EXCEPT ![m] = Replied(@, {})] \* LLM_DISABLED_HELP
                 ELSE Pass(m)
  /\ UNCHANGED <<world, follows, menu, turns, offered, reminded>>

\* a command of the group; it does not ask whether the group is paused
EnterCommand(m) ==
  /\ msg[m].stage = "queued" /\ "command" \in msg[m].todo
  /\ LET r == Begin(msg[m], "command", "look")
     IN msg' = [msg EXCEPT ![m] = IF r.command.act = "help" THEN Replied(r, {}) ELSE r]
  /\ UNCHANGED <<world, follows, menu, turns, offered, reminded>>

CoolDown(m) ==
  /\ msg[m].stage = "queued" /\ "command" \in msg[m].todo
  /\ msg' = [msg EXCEPT ![m] = Replied(Begin(@, "command", "look"), {})]
  /\ UNCHANGED <<world, follows, menu, turns, offered, reminded>>
---------------------------------------------------------------------------
(* What a command does. *)

\* the menu as it is now, if it had not expired when the handler began
OpenMenu(m) ==
  IF menu[Scope(m)].expires > msg[m].at THEN menu[Scope(m)].items ELSE <<>>

Pick(m) ==
  /\ msg[m].stage = "pick"
  /\ LET n == msg[m].command.number
     IN IF n <= Len(OpenMenu(m))
          THEN /\ msg' = [msg EXCEPT ![m].stage = "look", ![m].show = OpenMenu(m)[n]]
               /\ UNCHANGED turns
          ELSE Answer(m, "failed", {})
  /\ UNCHANGED <<world, follows, menu, offered, reminded>>

\* after a pick a search has no text left, and every title contains it
Found(m) ==
  (IF msg[m].show # NoShow THEN Shows ELSE Hits[msg[m].command.query]) \ adult

\* one show, or none: the one picked or of the id, the exact title, the only match
Target(m) ==
  LET matches == Hits[msg[m].command.query] \ adult
      exact   == Titled[msg[m].command.query] \ adult
  IN  CASE msg[m].show # NoShow -> {msg[m].show}
        [] msg[m].show = NoShow /\ Cardinality(exact) = 1 -> exact
        [] OTHER -> IF Cardinality(matches) = 1 THEN matches ELSE {}

Search(m) ==
  /\ msg[m].stage = "look" /\ msg[m].command.act = "search"
  /\ IF Cardinality(Found(m)) > 1
       THEN \E items \in SetToSeqs(Found(m)) : \* in no order
              /\ msg' = [msg EXCEPT ![m].stage = "keep", ![m].items = items]
              /\ UNCHANGED turns
       ELSE Answer(m, "answered", Found(m))
  /\ UNCHANGED <<world, follows, menu, offered, reminded>>

\* persist_candidates: the menu replaces the one before it
Keep(m) ==
  /\ msg[m].stage = "keep"
  /\ LET since == IF msg[m].via = "command" THEN clock ELSE msg[m].at
         left  == [items |-> msg[m].items, expires |-> since + TTL]
     IN /\ menu' = [menu EXCEPT ![Scope(m)] = left]
        /\ offered' = [offered EXCEPT ![msg[m].user] = @ \cup {left}]
  /\ Answer(m, "answered", ToSet(msg[m].items))
  /\ UNCHANGED <<world, follows, reminded>>

BlockedNever(s) == FALSE
Blocked(s) == s \in adult

\* details, next episode, resources
Detail(m) ==
  /\ msg[m].stage = "look" /\ msg[m].command.act = "detail"
  /\ Answer(m, "answered", {s \in Target(m) : ~Blocked(s)})
  /\ UNCHANGED <<world, follows, menu, offered, reminded>>

Mine(m) ==
  /\ msg[m].stage = "look" /\ msg[m].command.act = "mine"
  /\ Answer(m, "answered", {s \in Shows \ adult : <<msg[m].user, s>> \in follows})
  /\ UNCHANGED <<world, follows, menu, offered, reminded>>

\* today, this week, a season
List(m) ==
  /\ msg[m].stage = "look" /\ msg[m].command.act = "list"
  /\ Answer(m, "answered", OnAir \ adult)
  /\ UNCHANGED <<world, follows, menu, offered, reminded>>

\* links that wait for a decision: adult or not is not asked
Pending(m) ==
  /\ msg[m].stage = "look" /\ msg[m].command.act = "pending"
  /\ Answer(m, "answered", Unsure)
  /\ UNCHANGED <<world, follows, menu, offered, reminded>>

\* what the user wants of a show's releases, if he follows it; not asked either
Settings(m) ==
  /\ msg[m].stage = "look" /\ msg[m].command.act = "settings"
  /\ Answer(m, "answered", {s \in {msg[m].show} : <<msg[m].user, s>> \in follows})
  /\ UNCHANGED <<world, follows, menu, offered, reminded>>

\* to end a subscription nobody asks whether the show picked is adult
Change(m) ==
  /\ msg[m].stage = "look" /\ msg[m].command.act \in {"subscribe", "unsubscribe"}
  /\ LET subscribes == msg[m].command.act = "subscribe"
         target     == {s \in Target(m) : ~(subscribes /\ Blocked(s))}
     IN IF target = {}
          THEN Answer(m, "answered", {})
          ELSE /\ \E s \in target :
                    msg' = [msg EXCEPT ![m].show = s, ![m].stage =
                              IF subscribes /\ s \notin finished THEN "follow" ELSE "end"]
               /\ UNCHANGED turns
  /\ UNCHANGED <<world, follows, menu, offered, reminded>>

\* the repository looks at the show again, and raises: then nobody answers
Follow(m) ==
  /\ msg[m].stage = "follow"
  /\ LET s == msg[m].show
     IN IF Blocked(s)
          THEN Pass(m) /\ UNCHANGED <<follows, turns>>
          ELSE /\ follows' = follows \cup {<<msg[m].user, s>>}
               /\ Answer(m, "answered", {s})
  /\ UNCHANGED <<world, menu, offered, reminded>>

\* unsubscribed, or a show that has ended: the answer has its title
EndFollow(m) ==
  /\ msg[m].stage = "end"
  /\ follows' = follows \ {<<msg[m].user, msg[m].show>>}
  /\ Answer(m, "answered", {msg[m].show})
  /\ UNCHANGED <<world, menu, offered, reminded>>
---------------------------------------------------------------------------
(* The language model: AstrBot asks it when a mention was not answered. *)

\* the group's leave to chat: none, when the policy cannot be read
MayChat == {FALSE, policy.llm = "general"}

OpenTurn(m) ==
  /\ msg[m].stage = "queued" /\ msg[m].todo = {} /\ msg[m].answers = 0
  /\ msg[m].command.mention
  /\ \E general \in MayChat :
       /\ msg' = [msg EXCEPT ![m].stage = "turn", ![m].free = general]
       /\ turns' = [turns EXCEPT ![Turn(m)] = [general |-> general, status |-> "none"]]
  /\ UNCHANGED <<world, follows, menu, offered, reminded>>

CallTool(m, c) ==
  /\ msg[m].stage = "turn" /\ msg[m].calls < MaxCalls
  /\ LET r == [msg[m] EXCEPT !.command = c, !.calls = @ + 1]
     IN msg' = [msg EXCEPT ![m] = Begin(r, "llm", IF c.number > 0 THEN "pick" ELSE "look")]
  /\ UNCHANGED <<world, follows, menu, turns, offered, reminded>>

\* wrong arguments, no database, an exception on the way
ToolFails(m) ==
  /\ msg[m].stage \in {"pick", "look", "keep"} /\ msg[m].via = "llm"
  /\ Answer(m, "failed", {})
  /\ UNCHANGED <<world, follows, menu, offered, reminded>>

\* the guard lets the model's words through or puts its own in their place
LetThrough(turn) ==
  \/ turn.status \in {"gone", "answered"}
  \/ turn.status = "none" /\ turn.general

CloseTurn(m) ==
  /\ msg[m].stage = "turn"
  /\ msg' = [msg EXCEPT ![m].stage = "closed", ![m].answers = @ + 1,
                        ![m].said = LetThrough(turns[Turn(m)])]
  /\ turns' = [turns EXCEPT ![Turn(m)] = NoTurn]
  /\ UNCHANGED <<world, follows, menu, offered, reminded>>
---------------------------------------------------------------------------
(* The world outside: time, the owner's console, the worker's projection of what the
   sources say, and its planner of reminders. *)

Tick ==
  /\ clock < MaxClock /\ clock' = clock + 1
  /\ UNCHANGED <<legacy, changes, policy, adult, finished, follows, menu, msg, turns,
                 offered, reminded>>

Changes == changes < MaxChanges /\ changes' = changes + 1

ChangePolicy ==
  /\ Changes /\ policy' \in Policies \ {policy}
  /\ UNCHANGED <<legacy, clock, adult, finished, follows, menu, msg, turns, offered, reminded>>

FlagAdult(s) ==
  /\ Changes /\ s \notin adult /\ adult' = adult \cup {s}
  /\ UNCHANGED <<legacy, clock, policy, finished, follows, menu, msg, turns, offered, reminded>>

Finish(s) ==
  /\ Changes /\ s \notin finished /\ finished' = finished \cup {s}
  /\ UNCHANGED <<legacy, clock, policy, adult, follows, menu, msg, turns, offered, reminded>>

\* a show whose episode begins: its planner does not ask whether it is adult
Remind(s) ==
  /\ \E u \in Users : <<u, s>> \in follows
  /\ reminded' = reminded \cup {[show |-> s, adult |-> s \in adult]}
  /\ UNCHANGED <<world, follows, menu, msg, turns, offered>>

Handle(m) ==
  \/ EnterGateway(m) \/ Route(m) \/ EnterCommand(m) \/ CoolDown(m)
  \/ Pick(m) \/ Search(m) \/ Keep(m) \/ Detail(m) \/ Mine(m)
  \/ List(m) \/ Pending(m) \/ Settings(m) \/ Change(m) \/ Follow(m) \/ EndFollow(m)
  \/ OpenTurn(m) \/ ToolFails(m) \/ CloseTurn(m)

Next ==
  \/ \E m \in Messages, u \in Users, c \in Commands : Arrive(m, u, c)
  \/ \E m \in Messages : Handle(m)
  \/ \E m \in Messages, c \in ToolCalls : CallTool(m, c)
  \/ Tick \/ ChangePolicy
  \/ \E s \in Shows : FlagAdult(s) \/ Finish(s) \/ Remind(s)

Spec == Init /\ [][Next]_vars
---------------------------------------------------------------------------
(* Properties. *)

Stages == {"unsent", "queued", "route", "pick", "look", "keep", "follow", "end",
           "turn", "closed"}

\* A menu never has one entry alone and names each show once, and the model has a turn
\* only for a message that has come and is not closed (adapter.py:449, llm_policy.py:47).
TypeOK ==
  /\ follows \subseteq Users \X Shows
  /\ \A u \in Users : Len(menu[u].items) # 1 /\ IsInjective(menu[u].items)
  /\ \A m \in Messages :
       /\ msg[m].stage \in Stages /\ msg[m].todo \subseteq {"gateway", "command"}
       /\ turns[m].status # "gone" => msg[m].stage \in Stages \ {"unsent", "closed"}

\* A message of the group gets one answer: the command group, the gateway and the
\* language model all see a mention of the bot, in an order the plugin does not choose
\* (main.py:195).
OneAnswer == \A m \in Messages : msg[m].answers <= 1

\* Menus, messages and turns fit together, and nobody is answered twice (main.py:195).
ChatIsConsistent == TypeOK /\ OneAnswer

\* A number stands for the entry of a menu that a search of the same user left behind
\* and that had not expired when the message was taken up, whatever searches of others,
\* or of the model, ran in between (adapter.py:468, repository.py:73).
PicksFromOwnMenu ==
  [][\A m \in Messages :
       msg[m].stage = "pick" /\ msg'[m].stage = "look" =>
         \E left \in offered[msg[m].user] :
           /\ left.expires > msg[m].at
           /\ msg[m].command.number <= Len(left.items)
           /\ left.items[msg[m].command.number] = msg'[m].show]_vars

\* What is never asked whether a show is adult: the list of links that wait, and a user's
\* own subscription to a show to which he points by its id or by a number.
Pointed(c) == c.number > 0 \/ c.id # NoShow
Unfiltered(r, s) ==
  \/ r.command.act = "pending"
  \/ r.command.act \in {"unsubscribe", "settings"} /\ Pointed(r.command) /\ s = r.show

\* No answer names a show that was adult before its handler began, also when it was picked
\* from an older menu, given by its id, or has been subscribed to since: but for the list
\* of links that wait, and for the user who ends or sets up his subscription to a show
\* to which he points. A text never leads to one (use_cases.py:243, 522, 714, 788).
HiddenStaysHidden ==
  [][\A m \in Messages :
       \A s \in (msg'[m].named \ msg[m].named) \cap msg[m].hidden :
         Unfiltered(msg[m], s)]_vars

\* The model's own words reach the group only if its last call of the tool was answered,
\* or it made none and the group allowed general chat when the turn began
\* (main.py:166).
Grounded ==
  \A m \in Messages :
    msg[m].said => \/ msg[m].last = "answered"
                   \/ msg[m].last = "none" /\ msg[m].free

\* "成人内容不出现在查询和通知中": no reminder is planned for an adult show
\* (docs/superpowers/specs/2026-07-26-astrbot-multisource-anime-tracking-design.md:581).
AdultIsNotAnnounced == \A r \in reminded : ~r.adult
=============================================================================
