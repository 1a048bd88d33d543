----------------------------- MODULE GroupPolicy -----------------------------
(***************************************************************************)
(* The settings of a group, and the words the bot takes for commands when  *)
(* it is mentioned.  Both are rows with a version.  An owner changes them  *)
(* from a page of the console, loaded a while ago, or (the group's only)   *)
(* with a message; several do so at once.  Between reading a policy,       *)
(* comparing versions, writing and adding to the audit trail each waits    *)
(* for the database, where the others get in between.                      *)
(***************************************************************************)
EXTENDS Naturals, Sequences

CONSTANTS
  Writers,     \* the requests and messages in hand at once
  Defaults,    \* of a group without a row: a function from fields to values
  Edits,       \* changes an owner asks of the group: see EditsOK
  Actions, DefaultWords, \* what a mention may ask for, and how it is spelled
  Wordings,    \* changes of the words: functions from some actions to texts
  NoTime,      \* quiet hours that are not set
  MaxVersion   \* bound: of both rows

Fields == DOMAIN Defaults
Switches == {"shortcuts", "notify"} \cap Fields \* what a message may change

Minutes == {"anchor", "quiet", "cutoff"}

PolicyConstants ==
  /\ Minutes \cup {"from", "until"} \subseteq Fields
  /\ \A f \in Minutes : Defaults[f] \in Nat
  /\ Defaults.anchor < Defaults.cutoff
  /\ Defaults.quiet <= Defaults.cutoff - Defaults.anchor
  /\ Defaults.from = NoTime /\ Defaults.until = NoTime
  /\ DOMAIN DefaultWords = Actions /\ MaxVersion \in Nat

(* what: new values of some fields, within the limits of each; clear: no quiet hours *)
EditsOK ==
  \A e \in Edits :
    /\ e.clear \in BOOLEAN /\ DOMAIN e.what \subseteq Fields
    /\ \A f \in DOMAIN e.what : e.what[f] # NoTime /\ (f \in Minutes => e.what[f] \in Nat)

VARIABLES
  allowed,  \* admin_page_writes_enabled
  group,    \* group_runtime_settings: <<>>, or a row
  words,    \* mention_command_policies: <<>>, or a row
  writer,
  trail,    \* admin_audit: the newest entry of each, what was there before and after
  past      \* history: what each version of the two held

vars == <<allowed, group, words, writer, trail, past>>

Row(what, version) == [what |-> what, version |-> version]
Kinds == {"group", "words"}
Idle == [at |-> "idle"]

Init ==
  /\ allowed \in BOOLEAN
  /\ group = <<>> /\ words = <<>>
  /\ writer = [w \in Writers |-> Idle]
  /\ trail = [group |-> <<>>, words |-> <<>>]
  /\ past = [group |-> <<Defaults>>, words |-> <<DefaultWords>>]

(* get_policy, and get of the words: a row that is absent counts as version 1 *)
Policy == IF group = <<>> THEN Row(Defaults, 1) ELSE group
Spelling == IF words = <<>> THEN Row(DefaultWords, 1) ELSE words

(* dataclasses.replace *)
Replaced(p, what) == [f \in DOMAIN p |-> IF f \in DOMAIN what THEN what[f] ELSE p[f]]

(* a digest's quiet time must fit between its anchor and its cutoff *)
Fits(p) == p.anchor < p.cutoff /\ p.quiet <= p.cutoff - p.anchor
FitsDefaults(e) == Fits(Replaced(Defaults, e.what))
FitsPolicy(e) == Fits(Replaced(Policy.what, e.what))

(* an edit over what is set; quiet hours are given together *)
Edited(p, e) ==
  LET new == Replaced(p, e.what)
  IN  IF e.clear THEN [new EXCEPT !.from = NoTime, !.until = NoTime] ELSE new
Whole(e) == e.clear \/ ("from" \in DOMAIN e.what <=> "until" \in DOMAIN e.what)

(* from_mapping: every action has words, and no two share one *)
Unambiguous(s) ==
  /\ DOMAIN s = Actions
  /\ \A a \in Actions : s[a] # {} /\ \A b \in Actions \ {a} : s[a] \cap s[b] = {}

-----------------------------------------------------------------------------
(* The page of the console: what it shows, and the version to send back. *)
Open(w) ==
  /\ writer[w].at = "idle"
  /\ \E k \in Kinds :
       writer' = [writer EXCEPT ![w] =
         [at |-> "page", kind |-> k, shown |-> IF k = "group" THEN Policy ELSE Spelling]]
  /\ UNCHANGED <<allowed, group, words, trail, past>>

(* update_group up to update_policy's own read *)
Submit(w) ==
  /\ writer[w].at = "page" /\ writer[w].kind = "group" /\ allowed
  /\ \E e \in Edits :
       writer' = [writer EXCEPT ![w] =
         IF FitsPolicy(e)
           THEN [at |-> "asked", kind |-> "group", expected |-> @.shown.version,
                 edit |-> e, before |-> Policy]
           ELSE Idle]
  /\ UNCHANGED <<allowed, group, words, trail, past>>

(* _owner_command: the policy is the one read when the message came in *)
Say(w) ==
  /\ writer[w].at = "idle" /\ allowed
  /\ \E e \in {x \in Edits : ~x.clear /\ DOMAIN x.what \subseteq Switches /\ x.what # <<>>} :
       writer' = [writer EXCEPT ![w] =
         [at |-> "asked", kind |-> "group", expected |-> Policy.version,
          edit |-> e, before |-> Policy]]
  /\ UNCHANGED <<allowed, group, words, trail, past>>

(* update_policy reads again, and _write compares before it opens its transaction *)
Read(w) ==
  /\ writer[w].at = "asked" /\ writer[w].kind = "group"
  /\ writer' = [writer EXCEPT ![w] =
       IF Whole(@.edit) /\ Policy.version = @.expected
         THEN [at |-> "write", kind |-> "group", expected |-> @.expected,
               before |-> @.before, desired |-> Edited(Policy.what, @.edit)]
         ELSE Idle]
  /\ UNCHANGED <<allowed, group, words, trail, past>>

(* The transaction: an UPDATE of that version, or the first INSERT.  Another first
   INSERT makes it fail. *)
Anything(row, expected) == TRUE
Unchanged(row, expected) == IF row = <<>> THEN expected = 1 ELSE row.version = expected

Write(w) ==
  /\ writer[w].at = "write" /\ writer[w].expected < MaxVersion
  /\ IF Unchanged(group, writer[w].expected)
       THEN LET new == Row(writer[w].desired, writer[w].expected + 1) IN
            /\ group' = new
            /\ past' = [past EXCEPT !.group = Append(@, new.what)]
            /\ writer' = [writer EXCEPT ![w] =
                 [at |-> "audit", kind |-> "group", before |-> @.before, after |-> new]]
       ELSE UNCHANGED <<group, past>> /\ writer' = [writer EXCEPT ![w] = Idle]
  /\ UNCHANGED <<allowed, words, trail>>

(* update_mention_policy and restore_mention_policy: read for the audit first *)
SubmitWords(w) ==
  /\ writer[w].at = "page" /\ writer[w].kind = "words" /\ allowed
  /\ \E s \in Wordings \cup {DefaultWords} :
       writer' = [writer EXCEPT ![w] =
         IF Unambiguous(s)
           THEN [at |-> "asked", kind |-> "words", expected |-> @.shown.version,
                 edit |-> s, before |-> Spelling]
           ELSE Idle]
  /\ UNCHANGED <<allowed, group, words, trail, past>>

WriteWords(w) ==
  /\ writer[w].at = "asked" /\ writer[w].kind = "words"
  /\ writer[w].expected < MaxVersion
  /\ IF Unchanged(words, writer[w].expected)
       THEN LET new == Row(writer[w].edit, writer[w].expected + 1) IN
            /\ words' = new
            /\ past' = [past EXCEPT !.words = Append(@, new.what)]
            /\ writer' = [writer EXCEPT ![w] =
                 [at |-> "audit", kind |-> "words", before |-> @.before, after |-> new]]
       ELSE UNCHANGED <<words, past>> /\ writer' = [writer EXCEPT ![w] = Idle]
  /\ UNCHANGED <<allowed, group, trail>>

AuditNow(w) ==
  /\ writer[w].at = "audit"
  /\ trail' = [trail EXCEPT ![writer[w].kind] =
       <<writer[w].before, IF writer[w].kind = "group" THEN Policy ELSE Spelling>>]
  /\ writer' = [writer EXCEPT ![w] = Idle]
  /\ UNCHANGED <<allowed, group, words, past>>

(* AdminAuditRepository.append, in a transaction of its own *)
Audit(w) ==
  /\ writer[w].at = "audit"
  /\ trail' = [trail EXCEPT ![writer[w].kind] = <<writer[w].before, writer[w].after>>]
  /\ writer' = [writer EXCEPT ![w] = Idle]
  /\ UNCHANGED <<allowed, group, words, past>>

(* The plugin is reloaded (requests, messages and pages are gone), or the switch of
   its configuration is turned. *)
Reload ==
  /\ \E w \in Writers : writer[w] # Idle
  /\ writer' = [w \in Writers |-> Idle]
  /\ allowed' \in BOOLEAN
  /\ UNCHANGED <<group, words, trail, past>>

Next ==
  \/ \E w \in Writers : Open(w) \/ Submit(w) \/ Say(w) \/ Read(w) \/ Write(w)
                        \/ SubmitWords(w) \/ WriteWords(w) \/ Audit(w)
  \/ Reload

Spec == Init /\ [][Next]_vars

-----------------------------------------------------------------------------
(* Each row is absent or the last of the versions there were, and a stage of a writer
   that remembers a version remembers one that existed. *)
TypeOK ==
  /\ allowed \in BOOLEAN
  /\ group = <<>> \/ group = Row(past.group[Len(past.group)], Len(past.group))
  /\ words = <<>> \/ words = Row(past.words[Len(past.words)], Len(past.words))
  /\ \A w \in Writers :
       /\ writer[w].at \in {"idle", "page", "asked", "write", "audit"}
       /\ writer[w].at \in {"asked", "write"} =>
            writer[w].expected \in 1..Len(past[writer[w].kind])

(* What digests are planned by makes sense in every version, whatever was edited at
   the same time as what: the quiet time fits between the anchor and the cutoff, and
   quiet hours have two ends.  The check looks at one read of the policy and the
   write at another (admin_service.update_group, settings.update_policy). *)
SettingsMakeSense ==
  \A p \in {past.group[i] : i \in DOMAIN past.group} :
    p.anchor + p.quiet <= p.cutoff /\ (p.from = NoTime <=> p.until = NoTime)

(* What is stored is what some version held, the requests in hand stand where they may,
   and every version makes sense (settings.py:96). *)
SettingsAreConsistent == TypeOK /\ SettingsMakeSense

(* The trail tells the truth: an entry's before and after are two consecutive
   versions, although three transactions passed between reading the one and
   recording the other. *)
TrailIsTrue ==
  \A k \in Kinds :
    trail[k] # <<>> =>
      /\ trail[k][2].version = trail[k][1].version + 1
      /\ \A i \in 1..2 :
           /\ trail[k][i].version \in DOMAIN past[k]
           /\ past[k][trail[k][i].version] = trail[k][i].what

(* No lost update: a write replaces the version its author had in view, changes the
   fields he asked for and leaves every other as it was, so that what somebody else
   saved in between is never taken back unseen (settings._write). *)
NothingIsTakenBack ==
  [][group' # group =>
       \E w \in Writers :
         /\ writer[w].at = "write" /\ writer'[w].at = "audit"
         /\ writer[w].before = Policy
         /\ group'.version = Policy.version + 1
         /\ \E e \in Edits : group'.what = Edited(Policy.what, e)]_vars
=============================================================================
