--------------------------- MODULE GroupChatProofs ---------------------------
(***************************************************************************)
(* Theorems about GroupChat, for any messages, users, shows and commands.  *)
(* A message is answered once because its handlers hand it over: the       *)
(* gateway leaves commands alone, stops the event when it answers, and the *)
(* model is asked last.  What the model may say follows its turn, which    *)
(* the guard keeps in step with the calls of the tool.                     *)
(***************************************************************************)
EXTENDS GroupChat, FiniteSetTheorems, TLAPS

(* The inductive invariant, in named parts.                                *)

Handlers == {"gateway", "command"}

Message ==
  [stage: Stages, user: Users \cup {Nobody}, command: Commands \cup ToolCalls \cup {Chat},
   todo: SUBSET Handlers, via: Handlers \cup {"none", "llm"}, at: Nat,
   show: Shows \cup {NoShow}, items: Seq(Shows), hidden: SUBSET Shows,
   named: SUBSET Shows, answers: Nat, calls: Nat,
   last: {"none", "answered", "failed"}, free: BOOLEAN, said: BOOLEAN]

\* The stages a handler is in.
Working == {"route", "pick", "look", "keep", "follow", "end"}

\* A menu to leave behind.
IsMenu(items) == items \in Seq(Shows) /\ Len(items) # 1 /\ IsInjective(items)

\* What a handler needs of the message it works on.
IsReady(r) ==
  /\ r.stage # "unsent" => r.user \in Users
  /\ r.stage = "pick" => r.command.number > 0
  /\ r.stage = "look" /\ r.show = NoShow => ~Pointed(r.command)
  /\ r.stage = "look" /\ r.show # NoShow => Pointed(r.command) /\ r.show \in Shows
  /\ r.stage = "route" => r.show = r.command.id
  /\ r.stage \in {"follow", "end"} => r.show \in Shows
  /\ r.stage = "end" /\ r.show \in r.hidden => Unfiltered(r, r.show)
  /\ r.stage = "keep" => IsMenu(r.items) /\ ToSet(r.items) \cap r.hidden = {}

\* Who may still answer: nobody, once there is an answer.
IsHandedOver(r) ==
  /\ r.answers # 0 => /\ r.answers = 1 /\ r.stage \in {"queued", "closed"}
                      /\ r.todo = {} \/ (r.todo = {"gateway"} /\ r.command.slash)
  /\ r.stage \in Working => \/ r.todo = {}
                            \/ /\ r.via = "command" /\ r.command.slash
                               /\ r.todo = {"gateway"}
  /\ r.stage \in {"unsent", "turn"} => r.todo = {}
  /\ "command" \in r.todo => r.command.slash

\* The model reads: it only searches, looks and lists; before that nothing was answered.
IsModels(r) ==
  IF r.via = "llm"
    THEN r.command \in ToolCalls /\ r.stage \in {"pick", "look", "keep", "turn", "closed"}
    ELSE r.last = "none"

\* Whether the model has its turn, and what the guard knows of it.
InTurn(r) == r.stage = "turn" \/ (r.via = "llm" /\ r.stage # "closed")

TurnOf(r) == IF InTurn(r) THEN [general |-> r.free, status |-> r.last] ELSE NoTurn

\* Grounded, for one message, whose turn is over.
IsGrounded(r) ==
  r.said => /\ r.stage = "closed"
            /\ r.last = "answered" \/ (r.last = "none" /\ r.free)

Sound(m) ==
  /\ IsReady(msg[m]) /\ IsHandedOver(msg[m]) /\ IsModels(msg[m]) /\ IsGrounded(msg[m])
  /\ msg[m].hidden \subseteq adult /\ turns[m] = TurnOf(msg[m])

\* A menu is one that a search of the user left behind.
MenuInv ==
  /\ menu \in [Users -> [items: Seq(Shows), expires: Nat]]
  /\ offered \in [Users -> SUBSET [items: Seq(Shows), expires: Nat]]
  /\ \A u \in Users : /\ IsMenu(menu[u].items)
                      /\ menu[u] = NoMenu \/ menu[u] \in offered[u]

Types ==
  /\ clock \in Nat /\ adult \subseteq Shows /\ follows \subseteq Users \X Shows
  /\ msg \in [Messages -> Message] /\ legacy \in BOOLEAN /\ policy \in Policies
  /\ turns \in [Messages -> [general: BOOLEAN,
                             status: {"gone", "none", "answered", "failed"}]]

IInv == Types /\ MenuInv /\ \A m \in Messages : Sound(m)

-----------------------------------------------------------------------------
LEMMA CommandFacts ==
  \A c \in Commands \cup ToolCalls \cup {Chat} :
    /\ c.slash \in BOOLEAN /\ c.number \in Nat /\ c.id \in Shows \cup {NoShow}
    /\ c.slash => c.number = 0
    /\ c.number > 0 => c.id = NoShow
    /\ ~Pointed(c) /\ c.act \in AboutOne \cup {"search"} => c.query \in Queries
    /\ c.act = "settings" => c.id # NoShow
<1>1. \A c \in Commands \cup ToolCalls : IsCommand(c)
  BY CommandsOK DEF IsToolCall
<1>. QED
  <2>. TAKE c \in Commands \cup ToolCalls \cup {Chat}
  <2>1. CASE c \in Commands \cup ToolCalls
    <3>1. IsCommand(c)
      BY <1>1, <2>1
    <3>2. c.slash \in BOOLEAN
      BY <3>1 DEF IsCommand
    <3>3. c.number \in Nat /\ c.id \in Shows \cup {NoShow} /\ (c.act = "settings" => c.id # NoShow)
      BY <3>1 DEF IsCommand
    <3>4. c.slash => c.number = 0
      BY <3>1, Zenon DEF IsCommand
    <3>5. c.number > 0 => c.id = NoShow
      <4>1. c.id # NoShow => c.number = 0
        BY <3>1, Zenon DEF IsCommand
      <4>. QED
        BY <4>1
    <3>a. c.number = 0 /\ c.id = NoShow /\ c.act \in AboutOne \cup {"search"} =>
            c.query \in Queries
      BY <3>1 DEF IsCommand
    <3>b. ~Pointed(c) => c.number = 0 /\ c.id = NoShow
      BY <3>3 DEF Pointed
    <3>6. ~Pointed(c) /\ c.act \in AboutOne \cup {"search"} => c.query \in Queries
      BY <3>a, <3>b
    <3>. QED
      BY <3>2, <3>3, <3>4, <3>5, <3>6
  <2>2. CASE c = Chat
    <3>1. c.slash = FALSE /\ c.number = 0 /\ c.act = "chat" /\ c.id = NoShow
      BY <2>2 DEF Chat
    <3>2. c.act \notin AboutOne \cup {"search"}
      BY <3>1 DEF AboutOne
    <3>3. c.slash \in BOOLEAN
      BY <3>1
    <3>. QED
      BY <3>1, <3>2, <3>3 DEF AboutOne
  <2>. QED
    BY <2>1, <2>2

LEMMA ToolFacts ==
  \A c \in ToolCalls : c.act \in {"search", "detail", "mine", "list"} /\ c.id = NoShow
  BY CommandsOK DEF IsToolCall

LEMMA NoMenuFacts == NoMenu \in [items: Seq(Shows), expires: Nat] /\ IsMenu(NoMenu.items)
  BY DEF NoMenu, IsMenu, IsInjective

\* What holds of the record of a message.
Fits(r) ==
  /\ r \in Message
  /\ IsReady(r) /\ IsHandedOver(r) /\ IsModels(r) /\ IsGrounded(r) /\ r.hidden \subseteq adult

LEMMA InvFits ==
  ASSUME IInv, NEW m \in Messages
  PROVE  /\ Fits(msg[m]) /\ turns[m] = TurnOf(msg[m])
         /\ msg[m] \in Message
  BY DEF IInv, Types, Sound, Fits

(* What the steps make of the record of a message.                         *)

LEMMA UnsentFits ==
  ASSUME adult \in SUBSET Shows
  PROVE  Fits(Unsent) /\ TurnOf(Unsent) = NoTurn
  BY DEF Fits, Unsent, Message, Stages, Handlers, IsReady, Working, IsHandedOver, IsModels,
         IsGrounded, TurnOf, InTurn, Chat

Arrived(r, u, c) ==
  [r EXCEPT !.stage = "queued", !.user = u, !.command = c,
            !.todo = {"gateway"} \cup IF c.slash THEN {"command"} ELSE {}]

LEMMA ArriveFits ==
  ASSUME NEW r, Fits(r), r.stage = "unsent", NEW u \in Users, NEW c \in Commands,
         NEW s, s = Arrived(r, u, c)
  PROVE  Fits(s) /\ TurnOf(s) = TurnOf(r) /\ s.named = r.named /\ s.stage # "look"
<1> USE DEF Fits, Arrived
<1>1. c.slash \in BOOLEAN
  BY CommandFacts
<1>2. s \in Message
  BY <1>1 DEF Message, Stages, Handlers
<1>3. r.answers = 0 /\ r.via # "llm"
  BY DEF IsHandedOver, IsModels
<1>. QED
  BY <1>1, <1>2, <1>3 DEF Message, Handlers, IsReady, Working, IsHandedOver, IsModels,
         IsGrounded, TurnOf, InTurn

LEMMA BeginTyped ==
  ASSUME NEW r \in Message, clock \in Nat, adult \in SUBSET Shows,
         NEW handler \in Handlers \cup {"llm"}, NEW stage \in {"route", "pick", "look"}
  PROVE  Begin(r, handler, stage) \in Message
<1>1. r.todo \ {handler} \in SUBSET Handlers /\ <<>> \in Seq(Shows)
  BY DEF Message
<1>2. r.command.id \in Shows \cup {NoShow}
  BY CommandFacts DEF Message
<1>. QED
  BY <1>1, <1>2 DEF Begin, Message, Stages

\* A handler of the plugin takes a message up.
LEMMA BeginFits ==
  ASSUME NEW r, Fits(r), clock \in Nat, adult \in SUBSET Shows, r.stage = "queued",
         NEW handler \in Handlers, handler \in r.todo,
         NEW stage \in {"route", "look"},
         handler = "gateway" => stage = "route" /\ ~r.command.slash
  PROVE  /\ Fits(Begin(r, handler, stage)) /\ TurnOf(Begin(r, handler, stage)) = TurnOf(r)
<1> DEFINE s == Begin(r, handler, stage)
<1> USE DEF Fits
<1>a. r.command.id \in Shows \cup {NoShow} /\ r.command.number \in Nat
  BY CommandFacts DEF Message
<1>1. s \in Message
  BY BeginTyped
<1>2. r.answers = 0 /\ r.via # "llm"
  BY DEF IsHandedOver, IsModels, Handlers
<1>3. r.command.slash => r.command.number = 0
  BY CommandFacts DEF Message
<1>4. r.command.slash \in BOOLEAN /\ ("command" \in r.todo => r.command.slash)
  BY CommandFacts DEF Message, IsHandedOver
<1>5. /\ s.stage = stage /\ s.via = handler /\ s.command = r.command
      /\ s.todo = r.todo \ {handler} /\ s.show = r.command.id /\ s.hidden = adult
      /\ s.user = r.user /\ s.answers = r.answers /\ s.said = r.said /\ s.last = r.last
      /\ s.free = r.free
  BY DEF Begin, Message
<1>6. IsReady(s)
  <2>1. s.user \in Users
    BY <1>5 DEF IsReady
  <2>2. s.show = NoShow /\ s.stage = "look" => ~Pointed(s.command)
    <3>. SUFFICES ASSUME s.show = NoShow, s.stage = "look"
                  PROVE  ~Pointed(s.command)
      OBVIOUS
    <3>1. handler = "command" /\ r.command.slash
      BY <1>4, <1>5 DEF Handlers
    <3>. QED
      BY <1>3, <1>5, <3>1 DEF Pointed
  <2>3. s.show # NoShow => Pointed(s.command) /\ s.show \in Shows
    BY <1>a, <1>5 DEF Pointed
  <2>. QED
    BY <1>5, <2>1, <2>2, <2>3 DEF IsReady
<1>7. IsHandedOver(s) /\ IsModels(s)
  BY <1>2, <1>4, <1>5 DEF Message, Handlers, Working, IsHandedOver, IsModels
<1>8. IsGrounded(s) /\ TurnOf(s) = TurnOf(r)
  BY <1>2, <1>5 DEF Handlers, IsGrounded, TurnOf, InTurn
<1>. QED
  BY <1>1, <1>5, <1>6, <1>7, <1>8

\* The tool takes up a call.
Called(r, c) ==
  Begin([r EXCEPT !.command = c, !.calls = @ + 1], "llm",
        IF c.number > 0 THEN "pick" ELSE "look")

LEMMA CallFits ==
  ASSUME NEW r, Fits(r), clock \in Nat, adult \in SUBSET Shows, r.stage = "turn",
         NEW c \in ToolCalls,
         NEW s, s = Called(r, c)
  PROVE  Fits(s) /\ TurnOf(s) = TurnOf(r) /\ s.named = r.named
<1> USE DEF Fits, Called
<1>1. c.number \in Nat /\ c.id = NoShow
  BY CommandFacts, ToolFacts
<1>a. r.todo \ {"llm"} \in SUBSET Handlers /\ <<>> \in Seq(Shows) /\ r.calls + 1 \in Nat
  BY DEF Message
<1> DEFINE t == [r EXCEPT !.command = c, !.calls = @ + 1]
<1>b. t \in Message /\ t.todo = r.todo /\ t.command = c
  BY <1>a DEF Message
<1>2. s \in Message
  <2>1. PICK stage \in {"pick", "look"} : s = Begin(t, "llm", stage)
    OBVIOUS
  <2> HIDE DEF t
  <2>. QED
    BY <1>b, <2>1, BeginTyped
<1>3. r.answers = 0 /\ r.todo = {}
  BY DEF IsHandedOver
<1>4. /\ s.stage = (IF c.number > 0 THEN "pick" ELSE "look") /\ s.via = "llm" /\ s.command = c
      /\ s.todo = {} /\ s.show = NoShow /\ s.hidden = adult /\ s.user = r.user
      /\ s.answers = 0 /\ s.said = r.said /\ s.last = r.last /\ s.free = r.free
      /\ s.named = r.named
  BY <1>1, <1>3 DEF Begin, Message
<1>5. IsReady(s)
  BY <1>1, <1>4 DEF IsReady, Pointed
<1>6. IsHandedOver(s) /\ IsModels(s) /\ IsGrounded(s)
  BY <1>1, <1>4 DEF IsHandedOver, IsModels, IsGrounded
<1>7. TurnOf(s) = TurnOf(r)
  BY <1>4 DEF TurnOf, InTurn
<1>. QED
  BY <1>2, <1>4, <1>5, <1>6, <1>7

LEMMA RepliedFits ==
  ASSUME NEW r, Fits(r), r.stage \in Working, r.via # "llm", NEW named \in SUBSET Shows
  PROVE  /\ Fits(Replied(r, named)) /\ TurnOf(Replied(r, named)) = TurnOf(r)
         /\ Replied(r, named).named = r.named \cup named
         /\ Replied(r, named).stage # "look"
<1> DEFINE s == Replied(r, named)
<1> USE DEF Fits
<1>a. /\ (IF r.via = "gateway" THEN {} ELSE r.todo) \in SUBSET Handlers
      /\ r.answers + 1 \in Nat /\ r.named \cup named \in SUBSET Shows
  BY DEF Message
<1>1. s \in Message
  BY <1>a DEF Replied, Message, Stages, Handlers
<1>2. r.answers = 0 /\ r.todo \in {{}, {"gateway"}}
  BY DEF IsHandedOver, Working
<1>. QED
  BY <1>1, <1>2 DEF Replied, Message, Handlers, IsReady, Working, IsHandedOver, IsModels,
         IsGrounded, TurnOf, InTurn

LEMMA ToolFits ==
  ASSUME NEW r, Fits(r), r.via = "llm", r.stage \in Working, NEW named \in SUBSET Shows,
         NEW status \in {"answered", "failed"},
         NEW s, s = [r EXCEPT !.stage = "turn", !.last = status, !.named = @ \cup named]
  PROVE  Fits(s) /\ TurnOf(s) = Noted(TurnOf(r), status)
<1> USE DEF Fits
<1>1. s \in Message
  BY DEF Message, Stages, Handlers
<1>2. r.answers = 0 /\ r.todo = {} /\ ~r.said
  BY DEF IsHandedOver, IsGrounded, Working, Message
<1>. QED
  BY <1>1, <1>2 DEF Noted, Message, Handlers, IsReady, Working, IsHandedOver, IsModels,
         IsGrounded, TurnOf, InTurn


(* What the steps keep and do.                                             *)

\* PicksFromOwnMenu and HiddenStaysHidden, of one step and one message.
PicksOwn(m) ==
  msg[m].stage = "pick" /\ msg'[m].stage = "look" =>
    \E left \in offered[msg[m].user] :
      /\ left.expires > msg[m].at
      /\ msg[m].command.number <= Len(left.items)
      /\ left.items[msg[m].command.number] = msg'[m].show

NamesAllowed(m) ==
  \A s \in (msg'[m].named \ msg[m].named) \cap msg[m].hidden : Unfiltered(msg[m], s)

Right == \A m \in Messages : PicksOwn(m) /\ NamesAllowed(m)

\* A step for one message, which is not a pick.
LEMMA OneRight ==
  ASSUME NEW m \in Messages, NamesAllowed(m),
         \A n \in Messages \ {m} : msg'[n] = msg[n],
         msg[m].stage # "pick" \/ msg'[m].stage # "look"
  PROVE  Right
<1>1. \A n \in Messages \ {m} : PicksOwn(n) /\ NamesAllowed(n)
  BY DEF PicksOwn, NamesAllowed
<1>2. PicksOwn(m)
  BY DEF PicksOwn
<1>. QED
  BY <1>1, <1>2 DEF Right

LEMMA NoMessageRight ==
  ASSUME UNCHANGED msg
  PROVE  Right
  BY DEF Right, PicksOwn, NamesAllowed

\* A step for one message, whose record becomes r and whose turn follows it.
LEMMA MessageStep ==
  ASSUME IInv, NEW m \in Messages, NEW r, Fits(r),
         msg' = [msg EXCEPT ![m] = r], turns' = [turns EXCEPT ![m] = TurnOf(r)],
         UNCHANGED world, MenuInv', follows' \in SUBSET (Users \X Shows)
  PROVE  IInv'
<1> USE DEF world, Fits
<1>1. TurnOf(r) \in [general: BOOLEAN, status: {"gone", "none", "answered", "failed"}]
  BY DEF TurnOf, NoTurn, Message
<1>2. Types'
  BY <1>1 DEF IInv, Types
<1>3. \A n \in Messages : msg'[n] = IF n = m THEN r ELSE msg[n]
  BY DEF IInv, Types
<1>4. \A n \in Messages : turns'[n] = IF n = m THEN TurnOf(r) ELSE turns[n]
  BY DEF IInv, Types
<1>5. \A n \in Messages : Sound(n)'
  <2>. TAKE n \in Messages
  <2>1. CASE n = m
    <3>1. msg'[n] = r /\ turns'[n] = TurnOf(r) /\ adult' = adult
      BY <1>3, <1>4, <2>1
    <3>. QED
      BY <3>1 DEF Sound
  <2>2. CASE n # m
    <3>1. msg'[n] = msg[n] /\ turns'[n] = turns[n] /\ adult' = adult
      BY <1>3, <1>4, <2>2
    <3>. QED
      BY <3>1 DEF IInv, Sound
  <2>. QED
    BY <2>1, <2>2
<1>. QED
  BY <1>2, <1>5 DEF IInv

\* A step that leaves the menus and the subscriptions alone.
LEMMA TurnStep ==
  ASSUME IInv, NEW m \in Messages, NEW r, Fits(r),
         msg' = [msg EXCEPT ![m] = r], turns' = [turns EXCEPT ![m] = TurnOf(r)],
         UNCHANGED <<world, follows, menu, offered>>,
         r.named = msg[m].named, msg[m].stage # "pick" \/ r.stage # "look"
  PROVE  IInv' /\ Right
<1>1. MenuInv' /\ follows' \in SUBSET (Users \X Shows)
  BY DEF IInv, MenuInv, Types
<1>2. \A n \in Messages : msg'[n] = IF n = m THEN r ELSE msg[n]
  BY DEF IInv, Types
<1>3. NamesAllowed(m)
  BY <1>2 DEF NamesAllowed
<1>4. Right
  BY <1>2, <1>3, OneRight
<1>. QED
  BY <1>1, <1>4, MessageStep

\* A step that leaves the turns of the model alone too.
LEMMA QuietStep ==
  ASSUME IInv, NEW m \in Messages, NEW r, Fits(r), TurnOf(r) = TurnOf(msg[m]),
         msg' = [msg EXCEPT ![m] = r],
         UNCHANGED <<world, follows, menu, turns, offered>>,
         r.named = msg[m].named, msg[m].stage # "pick" \/ r.stage # "look"
  PROVE  IInv' /\ Right
<1>1. turns' = [turns EXCEPT ![m] = TurnOf(r)]
  BY InvFits DEF IInv, Types
<1>. QED
  BY <1>1, TurnStep

\* A handler, or the tool, answers.
LEMMA AnswerStep ==
  ASSUME IInv, NEW m \in Messages, NEW status \in {"answered", "failed"},
         NEW named \in SUBSET Shows, \A s \in named \cap msg[m].hidden : Unfiltered(msg[m], s),
         Answer(m, status, named), msg[m].stage \in Working,
         UNCHANGED world, MenuInv', follows' \in SUBSET (Users \X Shows)
  PROVE  IInv' /\ Right
<1>0. Fits(msg[m]) /\ turns[m] = TurnOf(msg[m]) /\ msg[m] \in Message
  BY InvFits
<1>1. /\ IInv' /\ msg'[m].named = msg[m].named \cup named /\ msg'[m].stage # "look"
      /\ \A n \in Messages \ {m} : msg'[n] = msg[n]
  <2>1. CASE msg[m].via = "llm"
    <3> DEFINE s == [msg[m] EXCEPT !.stage = "turn", !.last = status, !.named = @ \cup named]
    <3>1. msg' = [msg EXCEPT ![m] = s] /\ turns' = [turns EXCEPT ![m] = Noted(@, status)]
      BY <2>1 DEF Answer, ToolAnswer, Turn, IInv, Types
    <3>2. Fits(s) /\ TurnOf(s) = Noted(TurnOf(msg[m]), status)
      BY <1>0, <2>1, ToolFits
    <3>3. turns' = [turns EXCEPT ![m] = TurnOf(s)]
      BY <3>1, <3>2, <1>0 DEF IInv, Types
    <3>4. IInv'
      BY <3>1, <3>2, <3>3, MessageStep
    <3>. QED
      BY <3>1, <3>4, <1>0 DEF IInv, Types, Message
  <2>2. CASE msg[m].via # "llm"
    <3> DEFINE s == Replied(msg[m], named)
    <3>1. msg' = [msg EXCEPT ![m] = s] /\ UNCHANGED turns
      BY <2>2 DEF Answer, ChatAnswer
    <3>2. /\ Fits(s) /\ TurnOf(s) = TurnOf(msg[m])
          /\ s.named = msg[m].named \cup named /\ s.stage # "look"
      BY <1>0, <2>2, RepliedFits
    <3>3. turns' = [turns EXCEPT ![m] = TurnOf(s)]
      BY <3>1, <3>2, <1>0 DEF IInv, Types
    <3> HIDE DEF s
    <3>4. IInv'
      BY <3>1, <3>2, <3>3, MessageStep
    <3>. QED
      BY <3>1, <3>2, <3>4 DEF IInv, Types
  <2>. QED
    BY <2>1, <2>2
<1>2. NamesAllowed(m)
  BY <1>1 DEF NamesAllowed
<1>. QED
  BY <1>1, <1>2, OneRight

\* As AnswerStep, when the menus and the subscriptions stay.
LEMMA PlainAnswer ==
  ASSUME IInv, NEW m \in Messages, NEW status \in {"answered", "failed"},
         NEW named \in SUBSET Shows, \A s \in named \cap msg[m].hidden : Unfiltered(msg[m], s),
         Answer(m, status, named), msg[m].stage \in Working,
         UNCHANGED <<world, follows, menu, offered>>
  PROVE  IInv' /\ Right
<1>1. MenuInv' /\ follows' \in SUBSET (Users \X Shows)
  BY DEF IInv, MenuInv, Types
<1>. QED
  BY <1>1, AnswerStep

(* One lemma for each action.                                              *)

\* What the menus give, and what a search finds.
LEMMA OpenMenuFacts ==
  ASSUME IInv, NEW m \in Messages, msg[m].stage = "pick"
  PROVE  /\ OpenMenu(m) \in Seq(Shows) /\ msg[m].command.number \in Nat \ {0}
         /\ msg[m].command.number <= Len(OpenMenu(m)) =>
              \E left \in offered[msg[m].user] :
                left.items = OpenMenu(m) /\ left.expires > msg[m].at
<1>1. msg[m].user \in Users /\ msg[m].command.number > 0
  BY DEF IInv, Sound, IsReady
<1>2. msg[m].command.number \in Nat
  BY InvFits, CommandFacts DEF Message
<1>3. /\ menu[msg[m].user].items \in Seq(Shows)
      /\ menu[msg[m].user] = NoMenu \/ menu[msg[m].user] \in offered[msg[m].user]
  BY <1>1 DEF IInv, MenuInv
<1>4. CASE menu[msg[m].user].expires > msg[m].at /\ menu[msg[m].user] \in offered[msg[m].user]
  BY <1>1, <1>2, <1>3, <1>4 DEF OpenMenu, Scope
<1>5. CASE ~(menu[msg[m].user].expires > msg[m].at) \/ menu[msg[m].user] = NoMenu
  <2>1. OpenMenu(m) = <<>>
    BY <1>5 DEF OpenMenu, Scope, NoMenu
  <2>. QED
    BY <1>1, <1>2, <2>1
<1>. QED
  BY <1>3, <1>4, <1>5

LEMMA FoundFacts ==
  ASSUME IInv, NEW m \in Messages, msg[m].stage = "look",
         msg[m].command.act \in {"search", "detail", "subscribe", "unsubscribe"}
  PROVE  /\ Found(m) \subseteq Shows \ adult /\ Target(m) \subseteq Shows
         /\ msg[m].show = NoShow => Target(m) \cap adult = {}
<1>1. msg[m].show # NoShow => msg[m].show \in Shows
  BY InvFits DEF Message
<1>2. msg[m].show = NoShow => msg[m].command.query \in Queries
  BY InvFits, CommandFacts DEF Fits, IsReady, Message, AboutOne
<1>3. CASE msg[m].show # NoShow
  BY <1>1, <1>3 DEF Found, Target
<1>4. CASE msg[m].show = NoShow
  <2>1. /\ Hits[msg[m].command.query] \subseteq Shows
        /\ Titled[msg[m].command.query] \subseteq Shows
    BY <1>2, <1>4, ChatConstants
  <2>. QED
    BY <1>4, <2>1 DEF Found, Target
<1>. QED
  BY <1>3, <1>4

\* The orders of at least two shows are menus.
LEMMA SeqsAreMenus ==
  ASSUME NEW S \in SUBSET Shows, Cardinality(S) > 1, NEW items \in SetToSeqs(S)
  PROVE  IsMenu(items) /\ ToSet(items) \subseteq S
<1>1. Cardinality(S) \in Nat
  BY ChatConstants, FS_Subset, FS_CardinalityType
<1>2. items \in [1..Cardinality(S) -> S]
  BY DEF SetToSeqs
<1>3. \A i, j \in 1..Cardinality(S) : i # j => items[i] # items[j]
  BY DEF SetToSeqs
<1>4. items \in Seq(Shows) /\ Len(items) = Cardinality(S) /\ DOMAIN items = 1..Cardinality(S)
  BY <1>1, <1>2
<1>5. IsInjective(items)
  BY <1>3, <1>4 DEF IsInjective
<1>. QED
  BY <1>2, <1>4, <1>5 DEF IsMenu, ToSet

\* A handler answers without naming a show.
LEMMA WordlessAnswer ==
  ASSUME IInv, NEW m \in Messages, NEW r, Fits(r), TurnOf(r) = TurnOf(msg[m]),
         r.stage \in Working, r.via # "llm", r.named = msg[m].named,
         msg' = [msg EXCEPT ![m] = Replied(r, {})],
         UNCHANGED <<world, follows, menu, turns, offered>>
  PROVE  IInv' /\ Right
<1> DEFINE s == Replied(r, {})
<1>1. Fits(s) /\ TurnOf(s) = TurnOf(r) /\ s.named = r.named \cup {} /\ s.stage # "look"
  BY RepliedFits
<1> HIDE DEF s
<1>. QED
  BY <1>1, QuietStep DEF s

LEMMA StepArrive ==
  ASSUME IInv, NEW m \in Messages, NEW u \in Users, NEW c \in Commands, Arrive(m, u, c)
  PROVE  IInv' /\ Right
<1> DEFINE s == Arrived(msg[m], u, c)
<1>1. Fits(msg[m]) /\ msg[m] \in Message /\ msg[m].stage = "unsent"
  BY InvFits DEF Arrive
<1>2. Fits(s) /\ TurnOf(s) = TurnOf(msg[m]) /\ s.named = msg[m].named /\ s.stage # "look"
  BY <1>1, ArriveFits
<1>3. msg' = [msg EXCEPT ![m] = s]
  BY DEF Arrive, Arrived, IInv, Types
<1> HIDE DEF s
<1>. QED
  BY <1>2, <1>3, QuietStep DEF Arrive

LEMMA BeginKeeps ==
  ASSUME NEW r \in Message, NEW handler, NEW stage
  PROVE  /\ Begin(r, handler, stage).named = r.named
         /\ Begin(r, handler, stage).stage = stage
         /\ Begin(r, handler, stage).via = handler
         /\ Begin(r, handler, stage).command = r.command
  BY DEF Begin, Message

LEMMA StepEnterGateway ==
  ASSUME IInv, NEW m \in Messages, EnterGateway(m)
  PROVE  IInv' /\ Right
<1>1. Fits(msg[m]) /\ msg[m] \in Message /\ msg[m].stage = "queued" /\ "gateway" \in msg[m].todo
  BY InvFits DEF EnterGateway
<1>2. CASE Ignores(msg[m].command)
  <2> DEFINE s == [msg[m] EXCEPT !.todo = @ \ {"gateway"}]
  <2>1. msg' = [msg EXCEPT ![m] = s]
    BY <1>2 DEF EnterGateway, IInv, Types
  <2>2. s \in Message
    BY <1>1 DEF Message, Handlers
  <2>3. Fits(s) /\ TurnOf(s) = TurnOf(msg[m]) /\ s.named = msg[m].named /\ s.stage # "look"
    BY <1>1, <2>2 DEF Fits, Message, Handlers, IsReady, Working, IsHandedOver, IsModels,
         IsGrounded, TurnOf, InTurn
  <2> HIDE DEF s
  <2>. QED
    BY <2>1, <2>3, QuietStep DEF EnterGateway
<1>3. CASE ~Ignores(msg[m].command)
  <2> DEFINE s == Begin(msg[m], "gateway", "route")
  <2>1. msg' = [msg EXCEPT ![m] = s]
    BY <1>3 DEF EnterGateway, IInv, Types
  <2>2. Fits(s) /\ TurnOf(s) = TurnOf(msg[m])
    BY <1>1, <1>3, BeginFits DEF Ignores, Handlers, IInv, Types
  <2>3. s.named = msg[m].named /\ s.stage # "look"
    BY <1>1, BeginKeeps
  <2> HIDE DEF s
  <2>. QED
    BY <2>1, <2>2, <2>3, QuietStep DEF EnterGateway
<1>. QED
  BY <1>2, <1>3

LEMMA StepPass ==
  ASSUME IInv, NEW m \in Messages, Pass(m), msg[m].stage \in {"route", "follow"},
         UNCHANGED <<world, follows, menu, turns, offered>>
  PROVE  IInv' /\ Right
<1> DEFINE s == [msg[m] EXCEPT !.stage = "queued"]
<1>1. Fits(msg[m]) /\ msg[m] \in Message
  BY InvFits
<1>2. msg' = [msg EXCEPT ![m] = s]
  BY DEF Pass, IInv, Types
<1>3. s \in Message
  BY <1>1 DEF Message, Stages
<1>4. Fits(s) /\ TurnOf(s) = TurnOf(msg[m]) /\ s.named = msg[m].named /\ s.stage # "look"
  BY <1>1, <1>3 DEF Fits, Message, Handlers, IsReady, Working, IsHandedOver, IsModels,
         IsGrounded, TurnOf, InTurn
<1> HIDE DEF s
<1>. QED
  BY <1>2, <1>4, QuietStep

LEMMA StepRoute ==
  ASSUME IInv, NEW m \in Messages, Route(m)
  PROVE  IInv' /\ Right
<1>1. Fits(msg[m]) /\ msg[m] \in Message /\ msg[m].stage = "route" /\ msg[m].via # "llm"
  BY InvFits DEF Route, Fits, IsModels
<1>2. /\ msg[m].command.number \in Nat /\ msg[m].show = msg[m].command.id
      /\ msg[m].command.id \in Shows \cup {NoShow}
  BY <1>1, CommandFacts DEF Message, Fits, IsReady
<1>3. UNCHANGED <<world, follows, menu, turns, offered>>
  BY DEF Route
<1>4. CASE Pass(m)
  BY <1>1, <1>3, <1>4, StepPass
<1>5. CASE msg' = [msg EXCEPT ![m] = Replied(@, {})]
  <2>1. msg' = [msg EXCEPT ![m] = Replied(msg[m], {})]
    BY <1>5 DEF IInv, Types
  <2>. QED
    BY <1>1, <1>3, <2>1, WordlessAnswer DEF Working
<1>6. CASE Proceed(m) /\ msg[m].command.act # "help"
  <2> DEFINE s == [msg[m] EXCEPT !.stage = IF msg[m].command.number > 0 THEN "pick" ELSE "look"]
  <2>1. msg' = [msg EXCEPT ![m] = s]
    BY <1>6 DEF Proceed, IInv, Types
  <2>2. s \in Message
    BY <1>1 DEF Message, Stages
  <2>3. Fits(s) /\ TurnOf(s) = TurnOf(msg[m]) /\ s.named = msg[m].named
    BY <1>1, <1>2, <2>2 DEF Fits, Message, Handlers, IsReady, Pointed, Working,
         IsHandedOver, IsModels, IsGrounded, TurnOf, InTurn
  <2> HIDE DEF s
  <2>. QED
    BY <1>1, <1>3, <2>1, <2>3, QuietStep
<1>7. CASE Proceed(m) /\ msg[m].command.act = "help"
  BY <1>5, <1>7 DEF Proceed, IInv, Types
<1>. QED
  BY <1>4, <1>5, <1>6, <1>7 DEF Route

LEMMA StepEnterCommand ==
  ASSUME IInv, NEW m \in Messages, EnterCommand(m) \/ CoolDown(m)
  PROVE  IInv' /\ Right
<1> DEFINE s == Begin(msg[m], "command", "look")
<1>1. Fits(msg[m]) /\ msg[m] \in Message /\ msg[m].stage = "queued" /\ "command" \in msg[m].todo
  BY InvFits DEF EnterCommand, CoolDown
<1>2. Fits(s) /\ TurnOf(s) = TurnOf(msg[m])
  BY <1>1, BeginFits DEF Handlers, IInv, Types
<1>3. s.named = msg[m].named /\ s.stage = "look" /\ s.via = "command"
  BY <1>1, BeginKeeps
<1>4. UNCHANGED <<world, follows, menu, turns, offered>>
  BY DEF EnterCommand, CoolDown
<1>5. \/ msg' = [msg EXCEPT ![m] = s] \/ msg' = [msg EXCEPT ![m] = Replied(s, {})]
  BY DEF EnterCommand, CoolDown, IInv, Types
<1> HIDE DEF s
<1>6. CASE msg' = [msg EXCEPT ![m] = s]
  BY <1>1, <1>2, <1>3, <1>4, <1>6, QuietStep
<1>7. CASE msg' = [msg EXCEPT ![m] = Replied(s, {})]
  BY <1>2, <1>3, <1>4, <1>7, WordlessAnswer DEF Working
<1>. QED
  BY <1>5, <1>6, <1>7

LEMMA StepPick ==
  ASSUME IInv, NEW m \in Messages, Pick(m)
  PROVE  IInv' /\ Right
<1> DEFINE n == msg[m].command.number
           items == OpenMenu(m)
           s == [msg[m] EXCEPT !.stage = "look", !.show = items[n]]
<1>1. Fits(msg[m]) /\ msg[m] \in Message /\ msg[m].stage = "pick"
  BY InvFits DEF Pick
<1>2. /\ items \in Seq(Shows) /\ n \in Nat \ {0}
      /\ n <= Len(items) => \E left \in offered[msg[m].user] :
                              left.items = items /\ left.expires > msg[m].at
  BY <1>1, OpenMenuFacts
<1>3. CASE n <= Len(items)
  <2>1. items[n] \in Shows
    BY <1>2, <1>3
  <2>2. msg' = [msg EXCEPT ![m] = s] /\ UNCHANGED <<world, follows, menu, turns, offered>>
    BY <1>3 DEF Pick, IInv, Types
  <2>3. s \in Message
    BY <1>1, <2>1 DEF Message, Stages
  <2>4. Fits(s) /\ TurnOf(s) = TurnOf(msg[m]) /\ s.named = msg[m].named /\ s.show = items[n]
    BY <1>1, <1>2, <2>1, <2>3, ChatConstants DEF Fits, Message, Handlers, IsReady, Pointed,
         Working, IsHandedOver, IsModels, IsGrounded, TurnOf, InTurn
  <2>5. turns' = [turns EXCEPT ![m] = TurnOf(s)] /\ MenuInv' /\ follows' \in SUBSET (Users \X Shows)
    BY <2>2, <2>4, InvFits DEF IInv, Types, MenuInv
  <2>6. \A k \in Messages : msg'[k] = IF k = m THEN s ELSE msg[k]
    BY <2>2 DEF IInv, Types
  <2> HIDE DEF s
  <2>7. IInv'
    BY <2>2, <2>4, <2>5, MessageStep
  <2>8. PicksOwn(m)
    BY <1>2, <1>3, <2>4, <2>6 DEF PicksOwn
  <2>9. \A k \in Messages : NamesAllowed(k)
    BY <2>4, <2>6 DEF NamesAllowed
  <2>10. \A k \in Messages \ {m} : PicksOwn(k)
    BY <2>6 DEF PicksOwn
  <2>. QED
    BY <2>7, <2>8, <2>9, <2>10 DEF Right
<1>4. CASE ~(n <= Len(items))
  BY <1>1, <1>4, PlainAnswer DEF Pick, Working
<1>. QED
  BY <1>3, <1>4

LEMMA StepSearch ==
  ASSUME IInv, NEW m \in Messages, Search(m)
  PROVE  IInv' /\ Right
<1>1. Fits(msg[m]) /\ msg[m] \in Message /\ msg[m].stage = "look"
  BY InvFits DEF Search
<1>2. Found(m) \in SUBSET Shows /\ Found(m) \cap msg[m].hidden = {}
  BY <1>1, FoundFacts DEF Search, Fits
<1>3. CASE Cardinality(Found(m)) > 1
  <2>1. PICK items \in SetToSeqs(Found(m)) :
          msg' = [msg EXCEPT ![m].stage = "keep", ![m].items = items] /\ UNCHANGED turns
    BY <1>3 DEF Search
  <2>2. IsMenu(items) /\ ToSet(items) \subseteq Found(m)
    BY <1>2, <1>3, SeqsAreMenus
  <2> DEFINE s == [msg[m] EXCEPT !.stage = "keep", !.items = items]
  <2>3. msg' = [msg EXCEPT ![m] = s]
    BY <2>1 DEF IInv, Types
  <2>4. s \in Message
    BY <1>1, <2>2 DEF Message, Stages, IsMenu
  <2>5. ToSet(items) \cap msg[m].hidden = {}
    BY <1>2, <2>2
  <2>6. Fits(s) /\ TurnOf(s) = TurnOf(msg[m]) /\ s.named = msg[m].named /\ s.stage # "look"
    BY <1>1, <2>2, <2>4, <2>5 DEF Fits, Message, Handlers, IsReady, Working,
         IsHandedOver, IsModels, IsGrounded, TurnOf, InTurn
  <2> HIDE DEF s
  <2>. QED
    BY <2>1, <2>3, <2>6, QuietStep DEF Search
<1>4. CASE ~(Cardinality(Found(m)) > 1)
  BY <1>1, <1>2, <1>4, PlainAnswer DEF Search, Working
<1>. QED
  BY <1>3, <1>4

LEMMA StepKeep ==
  ASSUME IInv, NEW m \in Messages, Keep(m)
  PROVE  IInv' /\ Right
<1> DEFINE u == msg[m].user
           since == IF msg[m].via = "command" THEN clock ELSE msg[m].at
           left == [items |-> msg[m].items, expires |-> since + TTL]
<1>1. Fits(msg[m]) /\ msg[m] \in Message /\ msg[m].stage = "keep"
  BY InvFits DEF Keep
<1>2. u \in Users /\ IsMenu(msg[m].items) /\ ToSet(msg[m].items) \cap msg[m].hidden = {}
  BY <1>1 DEF Fits, IsReady
<1>3. ToSet(msg[m].items) \in SUBSET Shows
  BY <1>2 DEF IsMenu, ToSet
<1>4. since \in Nat
  BY <1>1 DEF IInv, Types, Message
<1>5. left \in [items: Seq(Shows), expires: Nat] /\ IsMenu(left.items)
  BY <1>2, <1>4, ChatConstants DEF IsMenu
<1>6. menu' = [menu EXCEPT ![u] = left] /\ offered' = [offered EXCEPT ![u] = @ \cup {left}]
  BY DEF Keep, Scope
<1> HIDE DEF left
<1>7. MenuInv'
  BY <1>2, <1>5, <1>6 DEF IInv, MenuInv
<1>8. follows' \in SUBSET (Users \X Shows)
  BY DEF Keep, IInv, Types
<1>. QED
  BY <1>1, <1>2, <1>3, <1>7, <1>8, AnswerStep DEF Keep, Working

LEMMA StepDetail ==
  ASSUME IInv, NEW m \in Messages, Detail(m)
  PROVE  IInv' /\ Right
<1> DEFINE named == {s \in Target(m) : ~Blocked(s)}
<1>1. Fits(msg[m]) /\ msg[m].stage = "look"
  BY InvFits DEF Detail
<1>2. named \in SUBSET Shows /\ named \cap msg[m].hidden = {}
  BY <1>1, FoundFacts DEF Detail, Fits, Blocked
<1> HIDE DEF named
<1>. QED
  BY <1>1, <1>2, PlainAnswer DEF Detail, Working, named

LEMMA StepMine ==
  ASSUME IInv, NEW m \in Messages, Mine(m)
  PROVE  IInv' /\ Right
<1> DEFINE named == {s \in Shows \ adult : <<msg[m].user, s>> \in follows}
<1>1. Fits(msg[m]) /\ msg[m].stage = "look"
  BY InvFits DEF Mine
<1>2. named \in SUBSET Shows /\ named \cap msg[m].hidden = {}
  BY <1>1 DEF Fits
<1> HIDE DEF named
<1>. QED
  BY <1>1, <1>2, PlainAnswer DEF Mine, Working, named

LEMMA StepList ==
  ASSUME IInv, NEW m \in Messages, List(m)
  PROVE  IInv' /\ Right
<1> DEFINE named == OnAir \ adult
<1>1. Fits(msg[m]) /\ msg[m].stage = "look"
  BY InvFits DEF List
<1>2. named \in SUBSET Shows /\ named \cap msg[m].hidden = {}
  BY <1>1, ChatConstants DEF Fits
<1> HIDE DEF named
<1>. QED
  BY <1>1, <1>2, PlainAnswer DEF List, Working, named

LEMMA StepPending ==
  ASSUME IInv, NEW m \in Messages, Pending(m)
  PROVE  IInv' /\ Right
<1>1. msg[m].stage = "look" /\ Unsure \in SUBSET Shows
  BY ChatConstants DEF Pending
<1>2. \A s \in Unsure \cap msg[m].hidden : Unfiltered(msg[m], s)
  BY DEF Pending, Unfiltered
<1>. QED
  BY <1>1, <1>2, PlainAnswer DEF Pending, Working

LEMMA StepSettings ==
  ASSUME IInv, NEW m \in Messages, Settings(m)
  PROVE  IInv' /\ Right
<1> DEFINE named == {s \in {msg[m].show} : <<msg[m].user, s>> \in follows}
<1>1. Fits(msg[m]) /\ msg[m].stage = "look" /\ msg[m].command.act = "settings"
  BY InvFits DEF Settings
<1>2. named \in SUBSET Shows
  BY <1>1 DEF IInv, Types
<1>3. Pointed(msg[m].command)
  BY <1>1, CommandFacts DEF Fits, Message, Pointed
<1>4. \A s \in named \cap msg[m].hidden : Unfiltered(msg[m], s)
  BY <1>1, <1>3 DEF Unfiltered
<1> HIDE DEF named
<1>. QED
  BY <1>1, <1>2, <1>4, PlainAnswer DEF Settings, Working, named

LEMMA StepChange ==
  ASSUME IInv, NEW m \in Messages, Change(m)
  PROVE  IInv' /\ Right
<1> DEFINE subscribes == msg[m].command.act = "subscribe"
           target == {s \in Target(m) : ~(subscribes /\ Blocked(s))}
<1>1. Fits(msg[m]) /\ msg[m] \in Message /\ msg[m].stage = "look"
  BY InvFits DEF Change
<1>2. /\ target \subseteq Shows
      /\ msg[m].show = NoShow => target \cap adult = {}
      /\ msg[m].show # NoShow => Pointed(msg[m].command)
  BY <1>1, FoundFacts DEF Change, Fits, IsReady
<1>3. msg[m].via # "llm"
  BY <1>1, ToolFacts DEF Fits, IsModels, Change
<1>4. CASE target = {}
  <2>1. Answer(m, "answered", {})
    BY <1>4 DEF Change
  <2>. QED
    BY <1>1, <2>1, PlainAnswer DEF Change, Working
<1>5. CASE target # {}
  <2>1. PICK s \in target :
          msg' = [msg EXCEPT ![m].show = s, ![m].stage =
                    IF subscribes /\ s \notin finished THEN "follow" ELSE "end"]
            /\ UNCHANGED turns
    BY <1>5 DEF Change
  <2>2. s \in Shows
    BY <1>2, <2>1
  <2>3. PICK stage \in {"follow", "end"} :
          msg' = [msg EXCEPT ![m].show = s, ![m].stage = stage]
    BY <2>1
  <2>a. s \in msg[m].hidden => /\ msg[m].command.act = "unsubscribe"
                              /\ Pointed(msg[m].command)
    BY <1>1, <1>2, <2>1 DEF Change, Fits, Blocked
  <2> DEFINE r == [msg[m] EXCEPT !.show = s, !.stage = stage]
  <2>4. msg' = [msg EXCEPT ![m] = r]
    BY <2>3 DEF IInv, Types
  <2>5. r \in Message
    BY <1>1, <2>2, <2>3 DEF Message, Stages
  <2>b. r.show = s /\ r.hidden = msg[m].hidden /\ r.command = msg[m].command
    BY <1>1 DEF Message
  <2>c. r.show \in r.hidden => Unfiltered(r, r.show)
    BY <2>a, <2>b DEF Unfiltered
  <2>6. Fits(r) /\ TurnOf(r) = TurnOf(msg[m]) /\ r.named = msg[m].named /\ r.stage # "look"
    BY <1>1, <1>3, <2>2, <2>3, <2>5, <2>c DEF Fits, Message, Handlers, IsReady, Working,
         IsHandedOver, IsModels, IsGrounded, TurnOf, InTurn
  <2> HIDE DEF r
  <2>. QED
    BY <2>1, <2>4, <2>6, QuietStep DEF Change
<1>. QED
  BY <1>4, <1>5

LEMMA StepFollow ==
  ASSUME IInv, NEW m \in Messages, Follow(m) \/ EndFollow(m)
  PROVE  IInv' /\ Right
<1>1. Fits(msg[m]) /\ msg[m].stage \in {"follow", "end"}
  BY InvFits DEF Follow, EndFollow
<1>2. msg[m].user \in Users /\ msg[m].show \in Shows
  BY <1>1 DEF Fits, IsReady
<1>3. CASE Follow(m) /\ Blocked(msg[m].show)
  BY <1>1, <1>3, StepPass DEF Follow
<1>4. CASE Follow(m) /\ ~Blocked(msg[m].show)
  <2>1. follows' \in SUBSET (Users \X Shows)
    BY <1>2, <1>4 DEF Follow, IInv, Types
  <2>2. {msg[m].show} \in SUBSET Shows /\ {msg[m].show} \cap msg[m].hidden = {}
    BY <1>1, <1>2, <1>4 DEF Fits, Blocked
  <2>3. MenuInv'
    BY <1>4 DEF Follow, IInv, MenuInv
  <2>. QED
    BY <1>1, <1>4, <2>1, <2>2, <2>3, AnswerStep DEF Follow, Working
<1>5. CASE EndFollow(m)
  <2>1. follows' \in SUBSET (Users \X Shows)
    BY <1>5 DEF EndFollow, IInv, Types
  <2>2. MenuInv'
    BY <1>5 DEF EndFollow, IInv, MenuInv
  <2>3. {msg[m].show} \in SUBSET Shows /\ Answer(m, "answered", {msg[m].show})
    BY <1>2, <1>5 DEF EndFollow
  <2>4. \A s \in {msg[m].show} \cap msg[m].hidden : Unfiltered(msg[m], s)
    BY <1>1, <1>5 DEF EndFollow, Fits, IsReady
  <2>. QED
    BY <1>1, <1>5, <2>1, <2>2, <2>3, <2>4, AnswerStep DEF EndFollow, Working
<1>. QED
  BY <1>3, <1>4, <1>5

LEMMA StepOpenTurn ==
  ASSUME IInv, NEW m \in Messages, OpenTurn(m)
  PROVE  IInv' /\ Right
<1>1. /\ Fits(msg[m]) /\ msg[m] \in Message /\ msg[m].stage = "queued"
      /\ msg[m].todo = {} /\ msg[m].answers = 0
  BY InvFits DEF OpenTurn
<1>2. PICK general \in MayChat :
        /\ msg' = [msg EXCEPT ![m].stage = "turn", ![m].free = general]
        /\ turns' = [turns EXCEPT ![m] = [general |-> general, status |-> "none"]]
  BY DEF OpenTurn, Turn
<1>3. general \in BOOLEAN
  BY DEF MayChat
<1> DEFINE s == [msg[m] EXCEPT !.stage = "turn", !.free = general]
<1>4. msg' = [msg EXCEPT ![m] = s]
  BY <1>2 DEF IInv, Types
<1>5. s \in Message
  BY <1>1, <1>3 DEF Message, Stages
<1>6. Fits(s) /\ s.named = msg[m].named /\ s.stage # "look"
  BY <1>1, <1>3, <1>5 DEF Fits, Message, Handlers, IsReady, Working, IsHandedOver, IsModels,
         IsGrounded
<1>7. TurnOf(s) = [general |-> general, status |-> "none"]
  BY <1>1 DEF TurnOf, InTurn, Fits, IsModels, Message
<1> HIDE DEF s
<1>. QED
  BY <1>2, <1>4, <1>6, <1>7, TurnStep DEF OpenTurn

LEMMA StepCallTool ==
  ASSUME IInv, NEW m \in Messages, NEW c \in ToolCalls, CallTool(m, c)
  PROVE  IInv' /\ Right
<1> DEFINE s == Called(msg[m], c)
<1>1. Fits(msg[m]) /\ msg[m].stage = "turn"
  BY InvFits DEF CallTool
<1>2. Fits(s) /\ TurnOf(s) = TurnOf(msg[m]) /\ s.named = msg[m].named
  BY <1>1, CallFits DEF IInv, Types
<1>3. msg' = [msg EXCEPT ![m] = s]
  BY <1>1 DEF CallTool, Called
<1> HIDE DEF s
<1>. QED
  BY <1>1, <1>2, <1>3, QuietStep DEF CallTool

LEMMA StepToolFails ==
  ASSUME IInv, NEW m \in Messages, ToolFails(m)
  PROVE  IInv' /\ Right
  BY PlainAnswer DEF ToolFails, Working

LEMMA CloseFits ==
  ASSUME NEW r, Fits(r), r.stage = "turn", NEW said \in BOOLEAN,
         said => r.last = "answered" \/ (r.last = "none" /\ r.free),
         NEW s, s = [r EXCEPT !.stage = "closed", !.answers = @ + 1, !.said = said]
  PROVE  Fits(s) /\ TurnOf(s) = NoTurn /\ s.named = r.named /\ s.stage = "closed"
<1> USE DEF Fits
<1>1. r.answers = 0 /\ r.todo = {}
  BY DEF IsHandedOver
<1>a. r.answers + 1 \in Nat /\ "closed" \in Stages /\ r \in Message
  BY <1>1 DEF Stages
<1>2. s \in Message
  BY <1>a DEF Message
<1>. QED
  BY <1>1, <1>2 DEF Message, Handlers, IsReady, Working, IsHandedOver, IsModels,
         IsGrounded, TurnOf, InTurn

LEMMA StepCloseTurn ==
  ASSUME IInv, NEW m \in Messages, CloseTurn(m)
  PROVE  IInv' /\ Right
<1> DEFINE said == LetThrough(turns[m])
           s == [msg[m] EXCEPT !.stage = "closed", !.answers = @ + 1, !.said = said]
<1>1. /\ Fits(msg[m]) /\ msg[m] \in Message /\ msg[m].stage = "turn"
      /\ turns[m] = [general |-> msg[m].free, status |-> msg[m].last]
  BY InvFits DEF CloseTurn, TurnOf, InTurn
<1>2. said \in BOOLEAN
  BY <1>1 DEF LetThrough, Message
<1>3. said => msg[m].last = "answered" \/ (msg[m].last = "none" /\ msg[m].free)
  BY <1>1 DEF LetThrough, Message
<1>4. msg' = [msg EXCEPT ![m] = s] /\ turns' = [turns EXCEPT ![m] = NoTurn]
  BY DEF CloseTurn, Turn, IInv, Types
<1> HIDE DEF said
<1>5. Fits(s) /\ TurnOf(s) = NoTurn /\ s.named = msg[m].named /\ s.stage = "closed"
  BY <1>1, <1>2, <1>3, CloseFits
<1> HIDE DEF s
<1>. QED
  BY <1>4, <1>5, TurnStep DEF CloseTurn

(* The world outside.                                                      *)

LEMMA StepWorld ==
  ASSUME IInv, clock' \in Nat, policy' \in Policies, legacy' = legacy,
         adult \subseteq adult', adult' \subseteq Shows,
         UNCHANGED <<follows, menu, msg, turns, offered>>
  PROVE  IInv' /\ Right
<1>1. Types' /\ MenuInv'
  BY DEF IInv, Types, MenuInv
<1>2. \A m \in Messages : Sound(m)'
  BY DEF IInv, Sound
<1>. QED
  BY <1>1, <1>2, NoMessageRight DEF IInv

LEMMA Step ==
  ASSUME IInv, [Next]_vars
  PROVE  IInv' /\ Right
<1> USE DEF world
<1>1. ASSUME NEW m \in Messages, NEW u \in Users, NEW c \in Commands, Arrive(m, u, c)
      PROVE  IInv' /\ Right
  BY <1>1, StepArrive
<1>2. ASSUME NEW m \in Messages, Handle(m) PROVE IInv' /\ Right
  BY <1>2, StepEnterGateway, StepRoute, StepEnterCommand, StepPick, StepSearch, StepKeep,
     StepDetail, StepMine, StepList, StepPending, StepSettings, StepChange, StepFollow, StepOpenTurn, StepToolFails, StepCloseTurn
     DEF Handle
<1>3. ASSUME NEW m \in Messages, NEW c \in ToolCalls, CallTool(m, c) PROVE IInv' /\ Right
  BY <1>3, StepCallTool
<1>4. ASSUME Tick PROVE IInv' /\ Right
  BY <1>4, StepWorld DEF Tick, IInv, Types
<1>5. ASSUME ChangePolicy PROVE IInv' /\ Right
  BY <1>5, StepWorld DEF ChangePolicy, IInv, Types
<1>6. ASSUME NEW s \in Shows, FlagAdult(s) PROVE IInv' /\ Right
  BY <1>6, StepWorld DEF FlagAdult, IInv, Types
<1>7. ASSUME NEW s \in Shows, Finish(s) PROVE IInv' /\ Right
  BY <1>7, StepWorld DEF Finish, IInv, Types
<1>8. ASSUME NEW s \in Shows, Remind(s) PROVE IInv' /\ Right
  BY <1>8, StepWorld DEF Remind, IInv, Types
<1>9. ASSUME UNCHANGED vars PROVE IInv' /\ Right
  BY <1>9, StepWorld DEF vars, IInv, Types
<1>. QED
  BY <1>1, <1>2, <1>3, <1>4, <1>5, <1>6, <1>7, <1>8, <1>9 DEF Next

LEMMA Start == Init => IInv
<1> SUFFICES ASSUME Init PROVE IInv
  OBVIOUS
<1> USE DEF Init
<1>1. Fits(Unsent) /\ TurnOf(Unsent) = NoTurn
  BY UnsentFits
<1>2. Types
  BY <1>1 DEF Types, Fits, NoTurn
<1>3. MenuInv
  BY NoMenuFacts DEF MenuInv
<1>4. \A m \in Messages : Sound(m)
  BY <1>1 DEF Sound, Fits
<1>. QED
  BY <1>2, <1>3, <1>4 DEF IInv

-----------------------------------------------------------------------------
(* Theorems.                                                               *)

\* The inductive invariant holds throughout.
THEOREM Invariance == Spec => []IInv
<1>1. IInv /\ [Next]_vars => IInv'
  BY Step
<1>. QED
  BY Start, <1>1, PTL DEF Spec

\* ChatIsConsistent: menus are never of one entry and name no show twice, the model has
\* a turn only for an open message, and a message gets one answer, whatever the order
\* in which the command, the gateway and the model see it (main.py:195).
THEOREM ChatAlwaysConsistent == Spec => []ChatIsConsistent
<1>1. IInv => ChatIsConsistent
  <2> SUFFICES ASSUME IInv PROVE ChatIsConsistent
    OBVIOUS
  <2>1. \A u \in Users : Len(menu[u].items) # 1 /\ IsInjective(menu[u].items)
    BY DEF IInv, MenuInv, IsMenu
  <2>2. ASSUME NEW m \in Messages
        PROVE  /\ msg[m].stage \in Stages /\ msg[m].todo \subseteq {"gateway", "command"}
               /\ turns[m].status # "gone" => msg[m].stage \in Stages \ {"unsent", "closed"}
               /\ msg[m].answers <= 1
    <3>1. Fits(msg[m]) /\ turns[m] = TurnOf(msg[m]) /\ msg[m] \in Message
      BY InvFits
    <3>2. msg[m].stage \in Stages /\ msg[m].todo \subseteq {"gateway", "command"}
      BY <3>1 DEF Message, Handlers
    <3>3. msg[m].answers <= 1
      BY <3>1 DEF Fits, IsHandedOver
    <3>4. InTurn(msg[m]) => msg[m].stage \notin {"unsent", "closed"}
      BY <3>1 DEF InTurn, Fits, IsModels
    <3>5. ~InTurn(msg[m]) => turns[m].status = "gone"
      BY <3>1 DEF TurnOf, NoTurn
    <3>. QED
      BY <3>2, <3>3, <3>4, <3>5
  <2>. QED
    BY <2>1, <2>2 DEF IInv, Types, ChatIsConsistent, TypeOK, OneAnswer
<1>. QED
  BY <1>1, Invariance, PTL

\* Grounded: the model's own words reach the group only after an answer of the tool, or
\* with the group's leave when it made no call (main.py:166).
THEOREM AlwaysGrounded == Spec => []Grounded
<1>1. IInv => Grounded
  BY DEF IInv, Sound, IsGrounded, Grounded
<1>. QED
  BY <1>1, Invariance, PTL

\* PicksFromOwnMenu: a number stands for an entry of an unexpired menu that a search of
\* the same user left behind (adapter.py:468).
THEOREM PicksAreOwn == Spec => PicksFromOwnMenu
<1>1. IInv /\ [Next]_vars =>
        [\A m \in Messages :
           msg[m].stage = "pick" /\ msg'[m].stage = "look" =>
             \E left \in offered[msg[m].user] :
               /\ left.expires > msg[m].at
               /\ msg[m].command.number <= Len(left.items)
               /\ left.items[msg[m].command.number] = msg'[m].show]_vars
  BY Step DEF Right, PicksOwn
<1>. QED
  BY <1>1, Invariance, PTL DEF Spec, PicksFromOwnMenu

\* HiddenStaysHidden: no answer names a show that was adult before its handler began, but
\* for the list of links that wait, and for a user who ends or sets up his subscription to
\* a show he gave by its id or picked by its number (use_cases.py:788, 657).
THEOREM HiddenIsNamedOnlyIfAsked == Spec => HiddenStaysHidden
<1>1. IInv /\ [Next]_vars =>
        [\A m \in Messages :
           \A s \in (msg'[m].named \ msg[m].named) \cap msg[m].hidden :
             Unfiltered(msg[m], s)]_vars
  BY Step DEF Right, NamesAllowed
<1>. QED
  BY <1>1, Invariance, PTL DEF Spec, HiddenStaysHidden

=============================================================================
