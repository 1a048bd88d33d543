---------------------------- MODULE PluginProofs ----------------------------
(***************************************************************************)
(* Theorems about the parts of Plugin, for any number of writers, edits,   *)
(* weeks, messages and mishaps.  For the settings: what a writer remembers *)
(* are versions that a row had, so a write that finds the version it       *)
(* expects finds the row it read.  For the honour: the messages that hold  *)
(* it or are recorded with it never outnumber the mishaps, the report      *)
(* before and the report at hand.                                          *)
(***************************************************************************)
EXTENDS Plugin, FiniteSetTheorems, WellFoundedInduction, TLAPS

(* The settings: the inductive invariant, in named parts.                  *)

Sorts == {"group", "words"}

\* What a version of the settings may hold, and of the words.
Values ==
  {Defaults[f] : f \in P!Fields} \cup {NoTime}
    \cup UNION {{e.what[f] : f \in DOMAIN e.what} : e \in Edits}

Sensible ==
  {p \in {Defaults} \cup [P!Fields -> Values] :
     /\ DOMAIN p = P!Fields /\ \A f \in P!Minutes : p[f] \in Nat
     /\ P!Fits(p) /\ (p.from = NoTime <=> p.until = NoTime)}

Wording == Wordings \cup {DefaultWords}

PastInv ==
  /\ DOMAIN past = Sorts
  /\ past.group \in Seq(Sensible) /\ past.words \in Seq(Wording)
  /\ Len(past.group) > 0 /\ Len(past.words) > 0

\* A row that is absent is in its first version, and another in its last.
Newest(k) == P!Row(past[k][Len(past[k])], Len(past[k]))

RowsInv ==
  /\ (group = <<>> /\ past.group = <<Defaults>>) \/ group = Newest("group")
  /\ (words = <<>> /\ past.words = <<DefaultWords>>) \/ words = Newest("words")

\* r is a version that the row of sort k had.
IsVersion(k, r) == \E i \in 1 .. Len(past[k]) : r = P!Row(past[k][i], i)

\* One version of sort k and the one after it.
Follows(k, a, b) == IsVersion(k, a) /\ IsVersion(k, b) /\ b.version = a.version + 1

\* An edit that can be made of r.
Acceptable(r, e) == e \in Edits /\ P!Fits(P!Replaced(r.what, e.what))

\* What a writer remembers: versions, and an edit that was checked against the last one
\* of them, which is not older than the version the writer expects.
Remembers(x) ==
  /\ x.at \in {"idle", "page", "asked", "write", "audit"}
  /\ x.at # "idle" => x.kind \in Sorts
  /\ x.at = "page" => IsVersion(x.kind, x.shown)
  /\ x.at = "asked" =>
       /\ IsVersion(x.kind, x.before) /\ x.expected \in 1 .. x.before.version
       /\ x.kind = "group" => Acceptable(x.before, x.edit)
       /\ x.kind = "words" => x.edit \in Wording
  /\ x.at = "write" =>
       /\ x.kind = "group"
       /\ IsVersion("group", x.before) /\ x.expected = x.before.version
       /\ \E e \in Edits : /\ Acceptable(x.before, e) /\ P!Whole(e)
                           /\ x.desired = P!Edited(x.before.what, e)
  /\ x.at = "audit" => Follows(x.kind, x.before, x.after)

WritersInv == DOMAIN writer = Writers /\ \A w \in Writers : Remembers(writer[w])

TrailInv ==
  /\ DOMAIN trail = Sorts
  /\ \A k \in Sorts : trail[k] # <<>> =>
       Len(trail[k]) = 2 /\ Follows(k, trail[k][1], trail[k][2])

SettingsInv == allowed \in BOOLEAN /\ PastInv /\ RowsInv /\ WritersInv /\ TrailInv

-----------------------------------------------------------------------------
(* The place of honour: the inductive invariant, in named parts.           *)

Delivered == {"publish", "set", "fail", "mark", "previous", "delete", "remove"}
Honoured == {"mark", "previous", "delete", "remove"}

\* Reports have messages of their own, the newest the latest; whose honour is to be taken
\* is an older one, and the new one has it.
ShapeInv ==
  /\ pc \in {"idle", "send"} => msg = E!NoMessage
  /\ msg # E!NoMessage => msg = sent
  /\ pc \in Delivered => job = "sent"
  /\ pc \in Honoured => msg # E!NoMessage /\ msg \in essence
  /\ pc \in {"delete", "remove"} =>
       old # week /\ old \in E!Marked /\ rows[old].message # E!NoMessage
  /\ pc = "remove" => rows[old].message \notin essence

RowInv ==
  /\ \A w \in E!Weeks : rows[w].message <= sent
  /\ msg # E!NoMessage => \A w \in E!Weeks \ {week} : rows[w].message < msg
  /\ \A v, w \in E!Weeks :
       rows[v].message = rows[w].message => v = w \/ rows[v].message = E!NoMessage
  /\ \A w \in E!Weeks :
       /\ w > week => ~ rows[w].known
       /\ ~ rows[w].known => rows[w].message = E!NoMessage /\ rows[w].essence = "none"

\* The report at hand has its own message or none yet.
Recorded == Delivered \ {"publish"}
RecordedInv == pc \in Recorded => rows[week].message \in {msg, E!NoMessage}

\* The reports of other weeks that are recorded as essence, and those without a message.
Others == E!Marked \ {week}
Mute == {w \in Others : rows[w].message = E!NoMessage}

\* The messages that have the honour, are recorded to, or may be about to get it.
Shown == {rows[w].message : w \in E!Marked}
Held == (essence \cup Shown \cup {msg}) \ {E!NoMessage}

Mishaps == refusals + lost + faults + late

\* The report at hand may have a place of its own.
Extra ==
  \/ pc \in {"complete", "publish"} /\ msg # E!NoMessage
  \/ pc \in {"set", "mark"} /\ msg # E!NoMessage /\ rows[week].known
  \/ pc \in {"previous", "delete", "remove"} /\ week \in E!Marked
  \/ pc = "idle" /\ job = "sent" /\ Others = {} /\ week \in E!Marked

One(b) == IF b THEN 1 ELSE 0
Room == Mishaps + One(Others # {}) + One(Extra)

HeldInv == Mute = {} => Cardinality(Held) <= Room

\* Without lost answers, faults and late records the rows tell what the platform shows.
KnownInv ==
  lost = 0 /\ faults = 0 /\ late = 0 =>
    /\ pc \in Recorded => rows[week].known /\ rows[week].message = msg
    /\ week \in E!Marked => pc \in {"previous", "delete", "remove"}
                              \/ (pc = "idle" /\ job = "sent")
    /\ essence = IF pc = "mark" THEN Shown \cup {msg}
                 ELSE IF pc = "remove" THEN Shown \ {rows[old].message} ELSE Shown

HonourInv == E!TypeOK /\ ShapeInv /\ RowInv /\ RecordedInv /\ HeldInv /\ KnownInv

-----------------------------------------------------------------------------
(* Lemmas about the settings *)

LEMMA DefaultsFit == Defaults \in Sensible
BY PolicyLimits DEF Sensible, P!PolicyConstants, P!Fields, P!Minutes, P!Fits

\* An edit that leaves the minutes fitting leaves the policy sensible.
LEMMA EditedFits ==
  ASSUME NEW p \in Sensible, NEW e \in Edits, P!Whole(e), P!Fits(P!Replaced(p, e.what))
  PROVE  P!Edited(p, e) \in Sensible
<1> DEFINE new == P!Replaced(p, e.what)
           wiped == [new EXCEPT !.from = NoTime, !.until = NoTime]
<1>1. /\ DOMAIN p = P!Fields /\ \A f \in P!Fields : p[f] \in Values
      /\ \A f \in P!Minutes : p[f] \in Nat
      /\ P!Minutes \cup {"from", "until"} \subseteq P!Fields
  BY PolicyLimits DEF Sensible, Values, P!PolicyConstants
<1>2. /\ \A f \in DOMAIN e.what : e.what[f] \in Values /\ e.what[f] # NoTime
      /\ \A f \in DOMAIN e.what : f \in P!Minutes => e.what[f] \in Nat
  BY PolicyLimits DEF P!EditsOK, Values
<1>3. new \in [P!Fields -> Values] /\ \A f \in P!Minutes : new[f] \in Nat
  BY <1>1, <1>2 DEF P!Replaced
<1>4. CASE e.clear
  <2>1. P!Edited(p, e) = wiped
    BY <1>4 DEF P!Edited
  <2>2. wiped \in [P!Fields -> Values]
    BY <1>3 DEF Values
  <2>3. wiped.from = NoTime /\ wiped.until = NoTime
    BY <1>1, <1>3
  <2>4. \A f \in P!Minutes : wiped[f] = new[f]
    BY <1>1, <1>3 DEF P!Minutes
  <2>5. P!Fits(wiped)
    BY <2>4 DEF P!Fits, P!Minutes
  <2>. HIDE DEF new, wiped
  <2>. QED  BY <1>3, <2>1, <2>2, <2>3, <2>4, <2>5 DEF Sensible
<1>5. CASE ~ e.clear
  <2>1. P!Edited(p, e) = new
    BY <1>5 DEF P!Edited
  <2>2. "from" \in DOMAIN e.what <=> "until" \in DOMAIN e.what
    BY <1>5 DEF P!Whole
  <2>3. new.from = NoTime <=> new.until = NoTime
    BY <1>1, <1>2, <2>2 DEF P!Replaced, Sensible
  <2>. HIDE DEF new
  <2>. QED  BY <1>3, <2>1, <2>3 DEF Sensible, new
<1>. QED  BY <1>4, <1>5

\* A message leaves the minutes alone.
LEMMA SwitchesFit ==
  ASSUME NEW p \in Sensible, NEW e, DOMAIN e.what \subseteq P!Switches
  PROVE  P!Fits(P!Replaced(p, e.what))
<1>1. DOMAIN p = P!Fields /\ P!Fits(p) /\ P!Minutes \subseteq P!Fields
  BY PolicyLimits DEF Sensible, P!PolicyConstants
<1>2. \A f \in P!Minutes : P!Replaced(p, e.what)[f] = p[f]
  BY <1>1 DEF P!Replaced, P!Switches, P!Minutes
<1>. QED  BY <1>1, <1>2 DEF P!Fits, P!Minutes

\* What a reader gets is the newest version, and a write succeeds over that one only.
LEMMA NewestIsRead ==
  ASSUME PastInv, RowsInv
  PROVE  /\ P!Policy = Newest("group") /\ P!Spelling = Newest("words")
         /\ \A n \in Nat : P!Unchanged(group, n) <=> n = Len(past.group)
         /\ \A n \in Nat : P!Unchanged(words, n) <=> n = Len(past.words)
         /\ IsVersion("group", P!Policy) /\ IsVersion("words", P!Spelling)
         /\ P!Policy.what \in Sensible
         /\ P!Policy.version = Len(past.group) /\ P!Spelling.version = Len(past.words)
<1>1. Len(past.group) \in 1 .. Len(past.group) /\ Len(past.words) \in 1 .. Len(past.words)
  BY DEF PastInv
<1>2. P!Policy = Newest("group") /\ P!Spelling = Newest("words")
  BY DEF RowsInv, P!Policy, P!Spelling, Newest, P!Row
<1>3. /\ \A n \in Nat : P!Unchanged(group, n) <=> n = Len(past.group)
      /\ \A n \in Nat : P!Unchanged(words, n) <=> n = Len(past.words)
  <2>1. ASSUME NEW n \in Nat PROVE P!Unchanged(group, n) <=> n = Len(past.group)
    <3>1. CASE group = <<>> /\ past.group = <<Defaults>>
      BY <3>1 DEF P!Unchanged
    <3>2. CASE group = Newest("group")
      <4>1. group # <<>> /\ group.version = Len(past.group)
        BY <3>2 DEF Newest, P!Row
      <4>. QED  BY <4>1 DEF P!Unchanged
    <3>. QED  BY <3>1, <3>2 DEF RowsInv
  <2>2. ASSUME NEW n \in Nat PROVE P!Unchanged(words, n) <=> n = Len(past.words)
    <3>1. CASE words = <<>> /\ past.words = <<DefaultWords>>
      BY <3>1 DEF P!Unchanged
    <3>2. CASE words = Newest("words")
      <4>1. words # <<>> /\ words.version = Len(past.words)
        BY <3>2 DEF Newest, P!Row
      <4>. QED  BY <4>1 DEF P!Unchanged
    <3>. QED  BY <3>1, <3>2 DEF RowsInv
  <2>. QED  BY <2>1, <2>2
<1>4. past.group[Len(past.group)] \in Sensible
  BY <1>1 DEF PastInv
<1>. QED  BY <1>1, <1>2, <1>3, <1>4 DEF IsVersion, Newest, P!Row

\* The versions there were stay.
LEMMA AppendKeeps ==
  ASSUME NEW k \in Sorts, NEW S, past[k] \in Seq(S), NEW x \in S,
         past'[k] = Append(past[k], x)
  PROVE  /\ past'[k] \in Seq(S) /\ Len(past'[k]) = Len(past[k]) + 1
         /\ \A r : IsVersion(k, r) => IsVersion(k, r)'
         /\ \A r : r = P!Row(x, Len(past[k]) + 1) => IsVersion(k, r)'
         /\ Newest(k)' = P!Row(x, Len(past[k]) + 1)
<1>1. /\ past'[k] \in Seq(S) /\ Len(past'[k]) = Len(past[k]) + 1 /\ Len(past[k]) \in Nat
      /\ \A i \in 1 .. Len(past[k]) : past'[k][i] = past[k][i]
      /\ past'[k][Len(past[k]) + 1] = x
  OBVIOUS
<1>2. ASSUME NEW r, IsVersion(k, r) PROVE IsVersion(k, r)'
  <2>1. PICK i \in 1 .. Len(past[k]) : r = P!Row(past[k][i], i)
    BY <1>2 DEF IsVersion
  <2>2. i \in 1 .. Len(past'[k]) /\ r = P!Row(past'[k][i], i)
    BY <1>1, <2>1
  <2>. QED  BY <2>2 DEF IsVersion
<1>3. ASSUME NEW r, r = P!Row(x, Len(past[k]) + 1) PROVE IsVersion(k, r)'
  <2>1. /\ Len(past[k]) + 1 \in 1 .. Len(past'[k])
        /\ r = P!Row(past'[k][Len(past[k]) + 1], Len(past[k]) + 1)
    BY <1>1, <1>3
  <2>. QED  BY <2>1 DEF IsVersion
<1>4. Newest(k)' = P!Row(x, Len(past[k]) + 1)
  BY <1>1 DEF Newest
<1>. QED  BY <1>1, <1>2, <1>3, <1>4

\* What a version holds is sensible, and there is one of each number.
LEMMA VersionFacts ==
  ASSUME PastInv
  PROVE  /\ \A r : IsVersion("group", r) =>
              r.what \in Sensible /\ r.version \in 1 .. Len(past.group)
         /\ \A r : IsVersion("words", r) => r.version \in 1 .. Len(past.words)
         /\ \A k \in Sorts : \A r, s :
              IsVersion(k, r) /\ IsVersion(k, s) /\ r.version = s.version => r = s
BY DEF PastInv, IsVersion, P!Row, Sorts

-----------------------------------------------------------------------------
(* The steps of the settings *)

VersionsKept == \A k \in Sorts : \A r : IsVersion(k, r) => IsVersion(k, r)'

\* What the others remember stays true.
LEMMA OthersRemember ==
  ASSUME WritersInv, VersionsKept, NEW w \in Writers, NEW x,
         writer' = [writer EXCEPT ![w] = x], Remembers(x)'
  PROVE  WritersInv'
<1>1. ASSUME NEW y, Remembers(y) PROVE Remembers(y)'
  <2>1. y.at = "asked" => IsVersion(y.kind, y.before)'
    BY <1>1 DEF Remembers, VersionsKept
  <2>2. y.at = "page" => IsVersion(y.kind, y.shown)'
    BY <1>1 DEF Remembers, VersionsKept
  <2>3. y.at = "write" => IsVersion("group", y.before)'
    BY <1>1 DEF Remembers, VersionsKept
  <2>4. y.at = "audit" => Follows(y.kind, y.before, y.after)'
    BY <1>1 DEF Remembers, VersionsKept, Follows
  <2>. QED  BY <1>1, <2>1, <2>2, <2>3, <2>4 DEF Remembers
<1>2. \A v \in Writers : writer'[v] = IF v = w THEN x ELSE writer[v]
  BY DEF WritersInv
<1>3. \A v \in Writers : Remembers(writer[v])'
  BY <1>1, <1>2 DEF WritersInv
<1>4. DOMAIN writer' = Writers
  BY DEF WritersInv
<1>. QED  BY <1>3, <1>4 DEF WritersInv

\* A step that only turns a writer, with what it may remember.
LEMMA OnlyWriter ==
  ASSUME SettingsInv, NEW w \in Writers, NEW x,
         writer' = [writer EXCEPT ![w] = x], Remembers(x),
         UNCHANGED <<allowed, group, words, trail, past>>
  PROVE  SettingsInv'
<1>1. VersionsKept /\ Remembers(x)'
  BY DEF VersionsKept, Remembers, IsVersion, Follows
<1>2. WritersInv'
  BY <1>1, OthersRemember DEF SettingsInv
<1>3. PastInv' /\ RowsInv' /\ TrailInv'
  BY DEF SettingsInv, PastInv, RowsInv, Newest, TrailInv, Follows, IsVersion
<1>. QED  BY <1>2, <1>3 DEF SettingsInv

LEMMA IdleRemembers == Remembers(P!Idle)
BY DEF Remembers, P!Idle

LEMMA OpenStep ==
  ASSUME SettingsInv, NEW w \in Writers, P!Open(w) PROVE SettingsInv'
<1>1. PICK k \in P!Kinds :
        writer' = [writer EXCEPT ![w] =
          [at |-> "page", kind |-> k, shown |-> IF k = "group" THEN P!Policy ELSE P!Spelling]]
  BY DEF P!Open
<1> DEFINE x == [at |-> "page", kind |-> k,
                 shown |-> IF k = "group" THEN P!Policy ELSE P!Spelling]
<1>2. IsVersion(k, IF k = "group" THEN P!Policy ELSE P!Spelling)
  BY NewestIsRead DEF SettingsInv, P!Kinds
<1>3. Remembers(x)
  BY <1>2 DEF Remembers, P!Kinds, Sorts
<1>. QED  BY <1>1, <1>3, OnlyWriter DEF P!Open

LEMMA SubmitStep ==
  ASSUME SettingsInv, NEW w \in Writers, P!Submit(w) PROVE SettingsInv'
<1>1. PICK e \in Edits :
        writer' = [writer EXCEPT ![w] =
          IF P!FitsPolicy(e)
            THEN [at |-> "asked", kind |-> "group", expected |-> writer[w].shown.version,
                  edit |-> e, before |-> P!Policy]
            ELSE P!Idle]
  BY DEF P!Submit
<1>2. IsVersion("group", writer[w].shown)
  BY DEF P!Submit, SettingsInv, WritersInv, Remembers
<1>3. writer[w].shown.version \in 1 .. P!Policy.version
  BY <1>2, NewestIsRead, VersionFacts DEF SettingsInv
<1>4. CASE P!FitsPolicy(e)
  <2> DEFINE x == [at |-> "asked", kind |-> "group", expected |-> writer[w].shown.version,
                   edit |-> e, before |-> P!Policy]
  <2>1. Acceptable(P!Policy, e) /\ IsVersion("group", P!Policy)
    BY <1>4, NewestIsRead DEF Acceptable, P!FitsPolicy, SettingsInv
  <2>2. Remembers(x)
    BY <1>3, <2>1 DEF Remembers, Sorts
  <2>. QED  BY <1>1, <1>4, <2>2, OnlyWriter DEF P!Submit
<1>5. CASE ~ P!FitsPolicy(e)
  BY <1>1, <1>5, OnlyWriter, IdleRemembers DEF P!Submit
<1>. QED  BY <1>4, <1>5

LEMMA SayStep ==
  ASSUME SettingsInv, NEW w \in Writers, P!Say(w) PROVE SettingsInv'
<1>1. PICK e \in Edits :
        /\ DOMAIN e.what \subseteq P!Switches
        /\ writer' = [writer EXCEPT ![w] =
             [at |-> "asked", kind |-> "group", expected |-> P!Policy.version,
              edit |-> e, before |-> P!Policy]]
  BY DEF P!Say
<1> DEFINE x == [at |-> "asked", kind |-> "group", expected |-> P!Policy.version,
                 edit |-> e, before |-> P!Policy]
<1>2. Acceptable(P!Policy, e)
  BY <1>1, NewestIsRead, SwitchesFit DEF Acceptable, SettingsInv
<1>3. IsVersion("group", P!Policy) /\ P!Policy.version \in 1 .. P!Policy.version
  BY NewestIsRead DEF SettingsInv, PastInv
<1>4. Remembers(x)
  BY <1>2, <1>3 DEF Remembers, Sorts
<1>. QED  BY <1>1, <1>4, OnlyWriter DEF P!Say

LEMMA ReadStep ==
  ASSUME SettingsInv, NEW w \in Writers, P!Read(w) PROVE SettingsInv'
<1> DEFINE r == writer[w]
           x == [at |-> "write", kind |-> "group", expected |-> r.expected,
                 before |-> r.before, desired |-> P!Edited(P!Policy.what, r.edit)]
<1>1. /\ r.at = "asked" /\ r.kind = "group"
      /\ writer' = [writer EXCEPT ![w] =
           IF P!Whole(r.edit) /\ P!Policy.version = r.expected THEN x ELSE P!Idle]
  BY DEF P!Read
<1>2. /\ IsVersion("group", r.before) /\ r.expected \in 1 .. r.before.version
      /\ Acceptable(r.before, r.edit)
  BY <1>1 DEF SettingsInv, WritersInv, Remembers
<1>3. CASE P!Whole(r.edit) /\ P!Policy.version = r.expected
  <2>1. r.expected = r.before.version /\ P!Policy = r.before
    BY <1>2, <1>3, NewestIsRead, VersionFacts DEF SettingsInv, Sorts
  <2>2. \E e \in Edits : /\ Acceptable(r.before, e) /\ P!Whole(e)
                         /\ x.desired = P!Edited(r.before.what, e)
    BY <1>2, <1>3, <2>1 DEF Acceptable
  <2>3. Remembers(x)
    BY <1>2, <2>1, <2>2 DEF Remembers, Sorts
  <2>. HIDE DEF x
  <2>. QED  BY <1>1, <1>3, <2>3, OnlyWriter DEF P!Read
<1>4. CASE ~ (P!Whole(r.edit) /\ P!Policy.version = r.expected)
  BY <1>1, <1>4, OnlyWriter, IdleRemembers DEF P!Read
<1>. QED  BY <1>3, <1>4

LEMMA SubmitWordsStep ==
  ASSUME SettingsInv, NEW w \in Writers, P!SubmitWords(w) PROVE SettingsInv'
<1>1. PICK s \in Wording :
        writer' = [writer EXCEPT ![w] =
          IF P!Unambiguous(s)
            THEN [at |-> "asked", kind |-> "words", expected |-> writer[w].shown.version,
                  edit |-> s, before |-> P!Spelling]
            ELSE P!Idle]
  BY DEF P!SubmitWords, Wording
<1> DEFINE x == [at |-> "asked", kind |-> "words", expected |-> writer[w].shown.version,
                 edit |-> s, before |-> P!Spelling]
<1>2. IsVersion("words", writer[w].shown)
  BY DEF P!SubmitWords, SettingsInv, WritersInv, Remembers
<1>3. writer[w].shown.version \in 1 .. P!Spelling.version /\ IsVersion("words", P!Spelling)
  BY <1>2, NewestIsRead, VersionFacts DEF SettingsInv
<1>4. Remembers(x)
  BY <1>3 DEF Remembers, Sorts
<1>. HIDE DEF x
<1>5. writer' = [writer EXCEPT ![w] = IF P!Unambiguous(s) THEN x ELSE P!Idle]
  BY <1>1 DEF x
<1>. QED  BY <1>4, <1>5, OnlyWriter, IdleRemembers DEF P!SubmitWords

\* A write that succeeds replaces the version its author compared his edit with.
LEMMA WriteFacts ==
  ASSUME SettingsInv, NEW w \in Writers, P!Write(w),
         P!Unchanged(group, writer[w].expected)
  PROVE  /\ writer[w].before = P!Policy /\ writer[w].expected = Len(past.group)
         /\ writer[w].desired \in Sensible
         /\ \E e \in Edits : writer[w].desired = P!Edited(P!Policy.what, e)
         /\ group' = P!Row(writer[w].desired, Len(past.group) + 1)
         /\ past' = [past EXCEPT !.group = Append(past.group, writer[w].desired)]
         /\ writer' = [writer EXCEPT ![w] =
              [at |-> "audit", kind |-> "group", before |-> P!Policy, after |-> group']]
         /\ UNCHANGED <<allowed, words, trail>>
<1> DEFINE r == writer[w]
<1>1. r.at = "write"
  BY DEF P!Write
<1>2. IsVersion("group", r.before) /\ r.expected = r.before.version
  BY <1>1 DEF SettingsInv, WritersInv, Remembers
<1>3. PICK e \in Edits : /\ Acceptable(r.before, e) /\ P!Whole(e)
                         /\ r.desired = P!Edited(r.before.what, e)
  BY <1>1 DEF SettingsInv, WritersInv, Remembers
<1>4. r.expected \in Nat
  BY <1>2, VersionFacts DEF SettingsInv
<1>5. r.expected = Len(past.group)
  BY <1>4, NewestIsRead DEF SettingsInv
<1>6. r.before = P!Policy
  BY <1>2, <1>5, NewestIsRead, VersionFacts DEF SettingsInv, Sorts
<1>7. r.desired \in Sensible
  BY <1>3, <1>6, NewestIsRead, EditedFits DEF Acceptable, SettingsInv
<1>8. /\ group' = P!Row(r.desired, r.expected + 1)
      /\ past' = [past EXCEPT !.group = Append(past.group, group'.what)]
      /\ writer' = [writer EXCEPT ![w] =
           [at |-> "audit", kind |-> "group", before |-> r.before, after |-> group']]
      /\ UNCHANGED <<allowed, words, trail>>
  BY DEF P!Write
<1>9. group'.what = r.desired
  BY <1>8 DEF P!Row
<1>. QED  BY <1>3, <1>5, <1>6, <1>7, <1>8, <1>9

\* A new version follows the one that was in the row.
LEMMA NewVersion ==
  ASSUME SettingsInv, NEW w \in Writers, NEW k \in Sorts, NEW old_row, NEW new_row,
         NEW S, past[k] \in Seq(S), NEW what \in S,
         IsVersion(k, old_row), old_row.version = Len(past[k]),
         new_row = P!Row(what, Len(past[k]) + 1),
         past' = [past EXCEPT ![k] = Append(past[k], what)],
         writer' = [writer EXCEPT ![w] =
           [at |-> "audit", kind |-> k, before |-> old_row, after |-> new_row]],
         UNCHANGED trail
  PROVE  /\ VersionsKept /\ WritersInv' /\ TrailInv' /\ DOMAIN past' = Sorts
         /\ past'[k] \in Seq(S) /\ Len(past'[k]) > 0 /\ Newest(k)' = new_row
         /\ \A other \in Sorts \ {k} : past'[other] = past[other]
<1> DEFINE x == [at |-> "audit", kind |-> k, before |-> old_row, after |-> new_row]
<1>1. /\ DOMAIN past' = Sorts /\ past'[k] = Append(past[k], what)
      /\ \A other \in Sorts \ {k} : past'[other] = past[other]
  BY DEF SettingsInv, PastInv
<1>2. /\ past'[k] \in Seq(S) /\ Len(past'[k]) = Len(past[k]) + 1 /\ Len(past[k]) \in Nat
      /\ \A r : IsVersion(k, r) => IsVersion(k, r)'
      /\ IsVersion(k, new_row)' /\ Newest(k)' = new_row
  BY <1>1, AppendKeeps
<1>3. VersionsKept
  BY <1>1, <1>2 DEF VersionsKept, IsVersion
<1>4. new_row.version = old_row.version + 1
  BY DEF P!Row
<1>5. Follows(k, old_row, new_row)'
  BY <1>2, <1>4 DEF Follows
<1>6. Remembers(x)'
  BY <1>5 DEF Remembers
<1>7. WritersInv'
  BY <1>3, <1>6, OthersRemember DEF SettingsInv
<1>8. TrailInv'
  BY <1>3 DEF SettingsInv, TrailInv, VersionsKept, Follows
<1>. QED  BY <1>1, <1>2, <1>3, <1>7, <1>8

LEMMA WriteStep ==
  ASSUME SettingsInv, NEW w \in Writers, P!Write(w) PROVE SettingsInv'
<1>1. CASE P!Unchanged(group, writer[w].expected)
  <2> DEFINE desired == writer[w].desired
             row == P!Row(desired, Len(past.group) + 1)
  <2>1. /\ desired \in Sensible /\ group' = row
        /\ past' = [past EXCEPT !["group"] = Append(past["group"], desired)]
        /\ writer' = [writer EXCEPT ![w] =
             [at |-> "audit", kind |-> "group", before |-> P!Policy, after |-> row]]
        /\ UNCHANGED <<allowed, words, trail>>
    BY <1>1, WriteFacts
  <2>2. /\ IsVersion("group", P!Policy) /\ P!Policy.version = Len(past.group)
        /\ past["group"] \in Seq(Sensible) /\ "group" \in Sorts
    BY NewestIsRead DEF SettingsInv, PastInv, Sorts
  <2>3. /\ VersionsKept /\ WritersInv' /\ TrailInv' /\ DOMAIN past' = Sorts
        /\ past'["group"] \in Seq(Sensible) /\ Len(past'["group"]) > 0
        /\ Newest("group")' = row
        /\ \A other \in Sorts \ {"group"} : past'[other] = past[other]
    <3>. HIDE DEF desired
    <3>. QED  BY <2>1, <2>2, NewVersion
  <2>4. past'["words"] = past["words"]
    BY <2>3 DEF Sorts
  <2>5. PastInv'
    BY <2>3, <2>4 DEF SettingsInv, PastInv
  <2>6. RowsInv'
    BY <2>1, <2>3, <2>4 DEF SettingsInv, RowsInv, Newest
  <2>. QED  BY <2>1, <2>3, <2>5, <2>6 DEF SettingsInv
<1>2. CASE ~ P!Unchanged(group, writer[w].expected)
  BY <1>2, OnlyWriter, IdleRemembers DEF P!Write
<1>. QED  BY <1>1, <1>2

LEMMA WriteWordsStep ==
  ASSUME SettingsInv, NEW w \in Writers, P!WriteWords(w) PROVE SettingsInv'
<1> DEFINE r == writer[w]
<1>1. CASE P!Unchanged(words, r.expected)
  <2> DEFINE row == P!Row(r.edit, Len(past.words) + 1)
  <2>1. /\ IsVersion("words", r.before) /\ r.expected \in 1 .. r.before.version
        /\ r.edit \in Wording
    BY DEF P!WriteWords, SettingsInv, WritersInv, Remembers
  <2>2. r.before.version \in 1 .. Len(past.words) /\ Len(past.words) \in Nat
    BY <2>1, VersionFacts DEF SettingsInv, PastInv
  <2>3. r.expected = Len(past.words) /\ r.before.version = Len(past.words)
    BY <1>1, <2>1, <2>2, NewestIsRead DEF SettingsInv
  <2>4. /\ words' = P!Row(r.edit, r.expected + 1)
        /\ past' = [past EXCEPT !.words = Append(past.words, words'.what)]
        /\ writer' = [writer EXCEPT ![w] =
             [at |-> "audit", kind |-> "words", before |-> r.before, after |-> words']]
        /\ UNCHANGED <<allowed, group, trail>>
    BY <1>1 DEF P!WriteWords
  <2>5. words' = row /\ words'.what = r.edit
    BY <2>3, <2>4 DEF P!Row
  <2>6. past["words"] \in Seq(Wording) /\ "words" \in Sorts
    BY DEF SettingsInv, PastInv, Sorts
  <2>7. /\ VersionsKept /\ WritersInv' /\ TrailInv' /\ DOMAIN past' = Sorts
        /\ past'["words"] \in Seq(Wording) /\ Len(past'["words"]) > 0
        /\ Newest("words")' = row
        /\ \A other \in Sorts \ {"words"} : past'[other] = past[other]
    <3>. HIDE DEF r
    <3>. QED  BY <2>1, <2>3, <2>4, <2>5, <2>6, NewVersion
  <2>8. past'["group"] = past["group"]
    BY <2>7 DEF Sorts
  <2>9. PastInv'
    BY <2>7, <2>8 DEF SettingsInv, PastInv
  <2>10. RowsInv'
    BY <2>4, <2>5, <2>7, <2>8 DEF SettingsInv, RowsInv, Newest
  <2>. QED  BY <2>4, <2>7, <2>9, <2>10 DEF SettingsInv
<1>2. CASE ~ P!Unchanged(words, r.expected)
  BY <1>2, OnlyWriter, IdleRemembers DEF P!WriteWords
<1>. QED  BY <1>1, <1>2

LEMMA AuditStep ==
  ASSUME SettingsInv, NEW w \in Writers, P!Audit(w) PROVE SettingsInv'
<1> DEFINE k == writer[w].kind
           entry == <<writer[w].before, writer[w].after>>
<1>1. k \in Sorts /\ Follows(k, writer[w].before, writer[w].after)
  BY DEF P!Audit, SettingsInv, WritersInv, Remembers
<1>2. /\ trail' = [trail EXCEPT ![k] = entry]
      /\ writer' = [writer EXCEPT ![w] = P!Idle]
      /\ UNCHANGED <<allowed, group, words, past>>
  BY DEF P!Audit
<1>3. \A s, a, b : Follows(s, a, b) <=> Follows(s, a, b)'
  BY <1>2 DEF Follows, IsVersion
<1>4. TrailInv'
  <2>1. DOMAIN trail' = Sorts /\ trail'[k] = entry
    BY <1>1, <1>2 DEF SettingsInv, TrailInv
  <2>2. \A s \in Sorts \ {k} : trail'[s] = trail[s]
    BY <1>2 DEF SettingsInv, TrailInv
  <2>3. /\ Len(entry) = 2 /\ entry[1] = writer[w].before /\ entry[2] = writer[w].after
    OBVIOUS
  <2>. HIDE DEF entry
  <2>4. \A s \in Sorts : trail'[s] # <<>> =>
          Len(trail'[s]) = 2 /\ Follows(s, trail'[s][1], trail'[s][2])
    BY <1>1, <2>1, <2>2, <2>3 DEF SettingsInv, TrailInv
  <2>. QED  BY <1>3, <2>1, <2>4 DEF TrailInv
<1>5. WritersInv'
  <2>1. VersionsKept /\ Remembers(P!Idle)'
    BY <1>2, IdleRemembers DEF VersionsKept, IsVersion, Remembers, P!Idle
  <2>. QED  BY <1>2, <2>1, OthersRemember DEF SettingsInv
<1>6. PastInv' /\ RowsInv'
  BY <1>2 DEF SettingsInv, PastInv, RowsInv, Newest
<1>. QED  BY <1>2, <1>4, <1>5, <1>6 DEF SettingsInv

LEMMA ReloadStep == SettingsInv /\ P!Reload => SettingsInv'
<1> SUFFICES ASSUME SettingsInv, P!Reload PROVE SettingsInv'
  OBVIOUS
<1>1. allowed' \in BOOLEAN /\ writer' = [w \in Writers |-> P!Idle]
      /\ UNCHANGED <<group, words, trail, past>>
  BY DEF P!Reload
<1>2. WritersInv'
  BY <1>1, IdleRemembers DEF WritersInv, Remembers, P!Idle
<1>3. PastInv' /\ RowsInv' /\ TrailInv'
  BY <1>1 DEF SettingsInv, PastInv, RowsInv, Newest, TrailInv, Follows, IsVersion
<1>. QED  BY <1>1, <1>2, <1>3 DEF SettingsInv

-----------------------------------------------------------------------------
(* The theorems about the settings *)

\* The versions of the settings and of the words, what each writer remembers of them and
\* the audit trail fit together at every step (settings.py:241, mention_policy.py:136).
THEOREM SettingsInvariance == P!Spec => []SettingsInv
<1>1. P!Init => SettingsInv
  <2> SUFFICES ASSUME P!Init PROVE SettingsInv
    OBVIOUS
  <2> USE DEF P!Init
  <2>1. PastInv
    BY DefaultsFit DEF PastInv, Sorts, Wording
  <2>2. RowsInv /\ TrailInv
    BY DEF RowsInv, TrailInv, Sorts
  <2>3. WritersInv
    BY IdleRemembers DEF WritersInv
  <2>. QED  BY <2>1, <2>2, <2>3 DEF SettingsInv
<1>2. SettingsInv /\ [P!Next]_P!vars => SettingsInv'
  <2>1. SettingsInv /\ UNCHANGED P!vars => SettingsInv'
    BY DEF P!vars, SettingsInv, PastInv, RowsInv, Newest, WritersInv, TrailInv, Remembers,
           Follows, IsVersion
  <2>. QED  BY <2>1, OpenStep, SubmitStep, SayStep, ReadStep, WriteStep, SubmitWordsStep,
               WriteWordsStep, AuditStep, ReloadStep DEF P!Next
<1>. QED  BY <1>1, <1>2, PTL DEF P!Spec

\* Each row is the last of its versions, and in every version the digest's times fit and
\* quiet hours have two ends, whoever edits what at the same time (admin_service.py:885
\* checks one read, settings.py:241 writes another).
THEOREM SettingsAlwaysConsistent == P!Spec => []SettingsAreConsistent
<1>1. SettingsInv => P!TypeOK
  <2> SUFFICES ASSUME SettingsInv PROVE P!TypeOK
    OBVIOUS
  <2>1. allowed \in BOOLEAN
    BY DEF SettingsInv
  <2>2. /\ group = <<>> \/ group = P!Row(past.group[Len(past.group)], Len(past.group))
        /\ words = <<>> \/ words = P!Row(past.words[Len(past.words)], Len(past.words))
    BY DEF SettingsInv, RowsInv, Newest
  <2>3. ASSUME NEW w \in Writers
        PROVE  /\ writer[w].at \in {"idle", "page", "asked", "write", "audit"}
               /\ writer[w].at \in {"asked", "write"} =>
                    writer[w].expected \in 1 .. Len(past[writer[w].kind])
    <3> DEFINE r == writer[w]
    <3>1. Remembers(r)
      BY DEF SettingsInv, WritersInv
    <3>2. ASSUME r.at \in {"asked", "write"}
          PROVE  r.expected \in 1 .. Len(past[r.kind])
      <4>1. r.kind \in Sorts /\ IsVersion(r.kind, r.before)
        BY <3>1, <3>2 DEF Remembers
      <4>2. r.before.version \in 1 .. Len(past[r.kind]) /\ Len(past[r.kind]) \in Nat
        BY <4>1, VersionFacts DEF SettingsInv, Sorts, PastInv
      <4>3. r.expected \in 1 .. r.before.version
        BY <3>1, <3>2, <4>2 DEF Remembers
      <4>. QED  BY <4>2, <4>3
    <3>. QED  BY <3>1, <3>2 DEF Remembers
  <2>. QED  BY <2>1, <2>2, <2>3 DEF P!TypeOK
<1>2. SettingsInv => P!SettingsMakeSense
  <2> SUFFICES ASSUME SettingsInv, NEW i \in DOMAIN past.group
               PROVE  /\ past.group[i].anchor + past.group[i].quiet <= past.group[i].cutoff
                      /\ past.group[i].from = NoTime <=> past.group[i].until = NoTime
    BY DEF P!SettingsMakeSense
  <2>1. past.group[i] \in Sensible
    BY DEF SettingsInv, PastInv
  <2>. QED  BY <2>1 DEF Sensible, P!Fits, P!Minutes
<1>. QED  BY <1>1, <1>2, SettingsInvariance, PTL
          DEF SettingsAreConsistent, P!SettingsAreConsistent

\* An entry of the audit trail holds two consecutive versions (admin_service.py:913).
THEOREM TrailAlwaysTrue == P!Spec => []TrailIsTrue
<1>1. SettingsInv => P!TrailIsTrue
  <2> SUFFICES ASSUME SettingsInv, NEW k \in P!Kinds, trail[k] # <<>>
               PROVE  /\ trail[k][2].version = trail[k][1].version + 1
                      /\ \A i \in 1 .. 2 :
                           /\ trail[k][i].version \in DOMAIN past[k]
                           /\ past[k][trail[k][i].version] = trail[k][i].what
    BY DEF P!TrailIsTrue
  <2>1. k \in Sorts /\ Follows(k, trail[k][1], trail[k][2])
    BY DEF SettingsInv, TrailInv, P!Kinds, Sorts
  <2>2. DOMAIN past[k] = 1 .. Len(past[k])
    BY <2>1 DEF SettingsInv, PastInv, Sorts
  <2>3. \A r : IsVersion(k, r) => /\ r.version \in DOMAIN past[k]
                                  /\ past[k][r.version] = r.what
    BY <2>2 DEF IsVersion, P!Row
  <2>. QED  BY <2>1, <2>3 DEF Follows
<1>. QED  BY <1>1, SettingsInvariance, PTL DEF TrailIsTrue

\* A write replaces the version its author had in view and changes what he asked for
\* (settings.py:241).
THEOREM NothingEverTakenBack == P!Spec => NothingIsTakenBack
<1> DEFINE Kept == group' # group =>
                     \E w \in Writers :
                       /\ writer[w].at = "write" /\ writer'[w].at = "audit"
                       /\ writer[w].before = P!Policy
                       /\ group'.version = P!Policy.version + 1
                       /\ \E e \in Edits : group'.what = P!Edited(P!Policy.what, e)
<1>1. SettingsInv /\ [P!Next]_P!vars => Kept
  <2> SUFFICES ASSUME SettingsInv, [P!Next]_P!vars, group' # group PROVE Kept
    OBVIOUS
  <2>1. PICK w \in Writers : P!Write(w)
    BY DEF P!Next, P!vars, P!Open, P!Submit, P!Say, P!Read, P!SubmitWords, P!WriteWords,
           P!Audit, P!Reload
  <2>2. P!Unchanged(group, writer[w].expected)
    BY <2>1 DEF P!Write
  <2>3. /\ writer[w].before = P!Policy
        /\ group' = P!Row(writer[w].desired, Len(past.group) + 1)
        /\ \E e \in Edits : writer[w].desired = P!Edited(P!Policy.what, e)
        /\ writer' = [writer EXCEPT ![w] =
              [at |-> "audit", kind |-> "group", before |-> P!Policy, after |-> group']]
    BY <2>1, <2>2, WriteFacts
  <2>4. writer'[w].at = "audit"
    BY <2>3 DEF SettingsInv, WritersInv
  <2>5. group'.version = P!Policy.version + 1 /\ group'.what = writer[w].desired
    BY <2>3, NewestIsRead DEF P!Row, SettingsInv
  <2>6. writer[w].at = "write"
    BY <2>1 DEF P!Write
  <2>. QED  BY <2>3, <2>4, <2>5, <2>6
<1>2. SettingsInv /\ [P!Next]_P!vars => [Kept]_P!vars
  BY <1>1
<1>. QED  BY <1>2, SettingsInvariance, PTL DEF P!Spec, NothingIsTakenBack, P!NothingIsTakenBack

-----------------------------------------------------------------------------
(* The steps of the place of honour *)

Report == [known : BOOLEAN, message : E!Messages \cup {E!NoMessage}, published : BOOLEAN,
           essence : {"none", "set", "failed", "removed"}]

\* The numbers and rows there are.
LEMMA EssenceTypes ==
  ASSUME E!TypeOK
  PROVE  /\ week \in E!Weeks /\ rows \in [E!Weeks -> Report]
         /\ sent \in Nat /\ msg \in Nat /\ MaxMessages \in Nat
         /\ late \in Nat /\ refusals \in Nat /\ lost \in Nat /\ faults \in Nat
         /\ \A w \in E!Weeks : w \in Nat /\ rows[w].message \in Nat
BY EssenceBounds DEF E!TypeOK, E!EssenceConstants, Report, E!Messages, E!NoMessage, E!Weeks

\* What a write of the week's publication does.
LEMMA WriteKeeps ==
  ASSUME E!TypeOK, NEW row \in Report, E!Write(row)
  PROVE  /\ rows' \in [E!Weeks -> Report]
         /\ \A w \in E!Weeks \ {week} : rows'[w] = rows[w]
         /\ rows'[week] = IF rows[week].known THEN row ELSE rows[week]
BY EssenceTypes DEF E!Write

\* The fields of the rows that are written.
LEMMA Rewritten ==
  ASSUME E!TypeOK
  PROVE  /\ E!Absent \in Report /\ E!Planned \in Report
         /\ E!Planned.known /\ E!Planned.message = E!NoMessage
         /\ E!Planned.essence = "none"
         /\ \A w \in E!Weeks :
              /\ [rows[w] EXCEPT !.message = msg, !.published = TRUE] \in Report
              /\ [rows[w] EXCEPT !.message = E!NoMessage, !.published = FALSE] \in Report
              /\ \A s \in {"failed", "set", "removed"} :
                   [rows[w] EXCEPT !.essence = s] \in Report
<1>1. rows \in [E!Weeks -> Report] /\ msg \in E!Messages \cup {E!NoMessage}
  BY EssenceTypes DEF E!TypeOK
<1>2. E!Absent \in Report
  BY DEF Report, E!Absent
<1>3. E!Planned \in Report
  BY <1>2 DEF Report, E!Planned
<1>4. E!Planned.known /\ E!Planned.message = E!NoMessage /\ E!Planned.essence = "none"
  BY DEF E!Absent, E!Planned
<1>5. ASSUME NEW w \in E!Weeks
      PROVE  /\ [rows[w] EXCEPT !.message = msg, !.published = TRUE] \in Report
             /\ [rows[w] EXCEPT !.message = E!NoMessage, !.published = FALSE] \in Report
             /\ \A s \in {"failed", "set", "removed"} :
                  [rows[w] EXCEPT !.essence = s] \in Report
  <2>1. rows[w] \in Report
    BY <1>1, <1>5
  <2>. QED  BY <1>1, <2>1 DEF Report
<1>. QED  BY <1>2, <1>3, <1>4, <1>5

LEMMA EssenceTypeStep == E!TypeOK /\ [E!Next]_E!vars => E!TypeOK'
<1> SUFFICES ASSUME E!TypeOK, [E!Next]_E!vars PROVE E!TypeOK'
  OBVIOUS
<1>1. CASE E!Enqueue
  BY <1>1 DEF E!TypeOK, E!Enqueue, E!platform, E!tickVars, E!history
<1>2. CASE E!RecordPlanned
  <2>1. rows' \in [E!Weeks -> Report]
    BY <1>2, EssenceTypes, Rewritten DEF E!RecordPlanned
  <2>. QED  BY <1>2, <2>1 DEF E!TypeOK, E!RecordPlanned, E!platform, E!tickVars, E!history, Report
<1>3. CASE E!PlannerDies
  <2>1. faults' \in Nat
    BY <1>3, EssenceTypes DEF E!PlannerDies
  <2>. QED  BY <1>3, <2>1 DEF E!TypeOK, E!PlannerDies, E!platform, E!tickVars
<1>4. CASE E!Expire
  BY <1>4 DEF E!TypeOK, E!Expire, E!platform, E!tickVars, E!history
<1>5. CASE E!NextWeek
  <2>1. week' \in E!Weeks
    BY <1>5, EssenceBounds DEF E!TypeOK, E!NextWeek, E!Weeks, E!EssenceConstants
  <2>. QED  BY <1>5, <2>1 DEF E!TypeOK, E!NextWeek, E!platform, E!tickVars, E!history
<1>6. CASE E!Claim
  BY <1>6 DEF E!TypeOK, E!Claim, E!platform, E!history
<1>7. CASE E!Accepted
  <2>1. sent' \in 0 .. MaxMessages /\ sent' \in E!Messages
    BY <1>7, EssenceTypes DEF E!TypeOK, E!Accepted, E!Messages
  <2>. QED  BY <1>7, <2>1 DEF E!TypeOK, E!Accepted, E!history
<1>8. CASE E!Failed
  <2>1. rows' \in [E!Weeks -> Report]
    BY <1>8, EssenceTypes, Rewritten, WriteKeeps DEF E!Failed
  <2>2. late' \in Nat
    BY <1>8, EssenceTypes DEF E!Failed, E!Late
  <2>. QED  BY <1>8, <2>1, <2>2 DEF E!TypeOK, E!Failed, E!End, E!platform, Report
<1>9. CASE E!CompleteJob
  BY <1>9 DEF E!TypeOK, E!CompleteJob, E!platform, E!history
<1>10. CASE E!Publish
  <2>1. rows' \in [E!Weeks -> Report]
    BY <1>10, EssenceTypes, Rewritten, WriteKeeps DEF E!Publish
  <2>2. late' \in Nat
    BY <1>10, EssenceTypes DEF E!Publish, E!Late
  <2>. QED  BY <1>10, <2>1, <2>2 DEF E!TypeOK, E!Publish, E!platform, Report
<1>11. CASE E!SetEssence
  <2>1. essence' \subseteq E!Messages /\ refusals' \in Nat /\ lost' \in Nat
    BY <1>11, EssenceTypes DEF E!TypeOK, E!SetEssence, E!Works, E!Refused, E!Unanswered
  <2>. QED  BY <1>11, <2>1 DEF E!TypeOK, E!SetEssence
<1>12. CASE E!MarkFailed
  <2>1. rows' \in [E!Weeks -> Report]
    BY <1>12, EssenceTypes, Rewritten, WriteKeeps DEF E!MarkFailed
  <2>. QED  BY <1>12, <2>1 DEF E!TypeOK, E!MarkFailed, E!End, E!platform, E!history, Report
<1>13. CASE E!MarkSet
  <2>1. rows' \in [E!Weeks -> Report]
    BY <1>13, EssenceTypes, Rewritten, WriteKeeps DEF E!MarkSet
  <2>. QED  BY <1>13, <2>1 DEF E!TypeOK, E!MarkSet, E!platform, E!history, Report
<1>14. CASE E!Previous
  <2>1. \A w \in E!Latest(E!Marked \ {week}) : w \in E!Weeks /\ w # E!NoRow
    BY DEF E!Latest, E!Marked, E!Weeks, E!NoRow
  <2>. QED  BY <1>14, <2>1 DEF E!TypeOK, E!Previous, E!End, E!platform, E!history
<1>15. CASE E!DeleteEssence
  <2>1. essence' \subseteq E!Messages /\ refusals' \in Nat /\ lost' \in Nat
    BY <1>15, EssenceTypes DEF E!TypeOK, E!DeleteEssence, E!Works, E!Refused, E!Unanswered
  <2>. QED  BY <1>15, <2>1 DEF E!TypeOK, E!DeleteEssence, E!End
<1>16. CASE E!MarkRemoved
  <2>1. rows' \in [E!Weeks -> Report]
    BY <1>16, EssenceTypes, Rewritten DEF E!MarkRemoved
  <2>. QED  BY <1>16, <2>1 DEF E!TypeOK, E!MarkRemoved, E!End, E!platform, E!history, Report
<1>17. CASE E!Interrupted
  BY <1>17 DEF E!TypeOK, E!Interrupted, E!End, E!platform
<1>18. CASE UNCHANGED E!vars
  BY <1>18 DEF E!TypeOK, E!vars
<1>. QED  BY <1>1, <1>2, <1>3, <1>4, <1>5, <1>6, <1>7, <1>8, <1>9, <1>10, <1>11, <1>12,
             <1>13, <1>14, <1>15, <1>16, <1>17, <1>18 DEF E!Next

\* What the writes change: known, message and essence of which row.
KnownKept == \A w \in E!Weeks : rows'[w].known = rows[w].known
MessagesKept == \A w \in E!Weeks : rows'[w].message = rows[w].message
MarksKept == \A w \in E!Weeks : rows'[w].essence = rows[w].essence

LEMMA RowsAfter ==
  ASSUME E!TypeOK
  PROVE  /\ E!RecordPlanned => \A w \in E!Weeks :
              rows'[w] = IF w = week /\ ~ rows[week].known THEN E!Planned ELSE rows[w]
         /\ E!Publish => /\ KnownKept /\ MarksKept
                         /\ \A w \in E!Weeks : rows'[w].message =
                              IF w = week /\ rows[week].known THEN msg ELSE rows[w].message
         /\ E!Failed => /\ KnownKept /\ MarksKept
                        /\ \A w \in E!Weeks :
                             \/ rows'[w].message = rows[w].message
                             \/ w = week /\ rows'[w].message = E!NoMessage
         /\ E!MarkFailed => /\ KnownKept /\ MessagesKept
                            /\ \A w \in E!Weeks : rows'[w].essence =
                                 IF w = week /\ rows[week].known THEN "failed"
                                                                 ELSE rows[w].essence
         /\ E!MarkSet => /\ KnownKept /\ MessagesKept
                         /\ \A w \in E!Weeks : rows'[w].essence =
                              IF w = week /\ rows[week].known THEN "set" ELSE rows[w].essence
         /\ E!MarkRemoved => /\ KnownKept /\ MessagesKept
                             /\ \A w \in E!Weeks : rows'[w].essence =
                                  IF w = old THEN "removed" ELSE rows[w].essence
         /\ rows' = rows \/ E!RecordPlanned \/ E!Publish \/ E!Failed \/ E!MarkFailed
              \/ E!MarkSet \/ E!MarkRemoved \/ ~ [E!Next]_E!vars
<1>1. rows \in [E!Weeks -> Report] /\ week \in E!Weeks
  BY EssenceTypes
<1>2. ASSUME E!RecordPlanned
      PROVE  \A w \in E!Weeks :
               rows'[w] = IF w = week /\ ~ rows[week].known THEN E!Planned ELSE rows[w]
  BY <1>1, <1>2 DEF E!RecordPlanned
<1>3. ASSUME E!Publish
      PROVE  /\ KnownKept /\ MarksKept
             /\ \A w \in E!Weeks : rows'[w].message =
                  IF w = week /\ rows[week].known THEN msg ELSE rows[w].message
  <2> DEFINE row == [rows[week] EXCEPT !.message = msg, !.published = TRUE]
  <2>1. /\ row.known = rows[week].known /\ row.essence = rows[week].essence
        /\ row.message = msg
    BY <1>1 DEF Report
  <2>2. /\ \A w \in E!Weeks \ {week} : rows'[w] = rows[w]
        /\ rows'[week] = IF rows[week].known THEN row ELSE rows[week]
    BY <1>1, <1>3, Rewritten, WriteKeeps DEF E!Publish
  <2>. HIDE DEF row
  <2>. QED  BY <1>1, <2>1, <2>2 DEF KnownKept, MarksKept
<1>4. ASSUME E!Failed
      PROVE  /\ KnownKept /\ MarksKept
             /\ \A w \in E!Weeks : \/ rows'[w].message = rows[w].message
                                   \/ w = week /\ rows'[w].message = E!NoMessage
  <2> DEFINE row == [rows[week] EXCEPT !.message = E!NoMessage, !.published = FALSE]
  <2>1. /\ row.known = rows[week].known /\ row.essence = rows[week].essence
        /\ row.message = E!NoMessage
    BY <1>1 DEF Report
  <2>2. \/ rows' = rows
        \/ /\ \A w \in E!Weeks \ {week} : rows'[w] = rows[w]
           /\ rows'[week] = IF rows[week].known THEN row ELSE rows[week]
    BY <1>1, <1>4, Rewritten, WriteKeeps DEF E!Failed
  <2>. HIDE DEF row
  <2>. QED  BY <1>1, <2>1, <2>2 DEF KnownKept, MarksKept
<1>5. ASSUME NEW s \in {"failed", "set"}, E!Write([rows[week] EXCEPT !.essence = s])
      PROVE  /\ KnownKept /\ MessagesKept
             /\ \A w \in E!Weeks : rows'[w].essence =
                  IF w = week /\ rows[week].known THEN s ELSE rows[w].essence
  <2> DEFINE row == [rows[week] EXCEPT !.essence = s]
  <2>1. /\ row.known = rows[week].known /\ row.message = rows[week].message
        /\ row.essence = s
    BY <1>1 DEF Report
  <2>2. /\ \A w \in E!Weeks \ {week} : rows'[w] = rows[w]
        /\ rows'[week] = IF rows[week].known THEN row ELSE rows[week]
    BY <1>1, <1>5, Rewritten, WriteKeeps
  <2>. HIDE DEF row
  <2>. QED  BY <1>1, <2>1, <2>2 DEF KnownKept, MessagesKept
<1>6. ASSUME E!MarkRemoved
      PROVE  /\ KnownKept /\ MessagesKept
             /\ \A w \in E!Weeks : rows'[w].essence =
                  IF w = old THEN "removed" ELSE rows[w].essence
  BY <1>1, <1>6 DEF E!MarkRemoved, KnownKept, MessagesKept, Report
<1>7. \/ rows' = rows
      \/ E!RecordPlanned \/ E!Publish \/ E!Failed \/ E!MarkFailed \/ E!MarkSet
      \/ E!MarkRemoved \/ ~ [E!Next]_E!vars
  BY DEF E!Next, E!vars, E!Enqueue, E!PlannerDies, E!Expire, E!NextWeek, E!Claim, E!Accepted,
         E!CompleteJob, E!SetEssence, E!Previous, E!DeleteEssence, E!Interrupted
<1>. QED  BY <1>2, <1>3, <1>4, <1>5, <1>6, <1>7 DEF E!MarkFailed, E!MarkSet

LEMMA ShapeStep == E!TypeOK /\ ShapeInv /\ RowInv /\ [E!Next]_E!vars => ShapeInv'
<1> SUFFICES ASSUME E!TypeOK, ShapeInv, RowInv, [E!Next]_E!vars PROVE ShapeInv'
  OBVIOUS
<1>1. week \in E!Weeks /\ rows \in [E!Weeks -> Report] /\ sent \in Nat /\ msg \in Nat
  BY EssenceTypes
<1>2. CASE E!Enqueue
  BY <1>2 DEF ShapeInv, E!Enqueue, E!platform, E!tickVars, E!Marked, Delivered
<1>3. CASE E!RecordPlanned
  <2>1. pc \in {"delete", "remove"} => rows'[old] = rows[old]
    BY <1>3, RowsAfter DEF ShapeInv, E!Marked
  <2>. QED  BY <1>3, <2>1 DEF ShapeInv, E!RecordPlanned, E!platform, E!tickVars, E!Marked
<1>4. CASE E!PlannerDies
  BY <1>4 DEF ShapeInv, E!PlannerDies, E!platform, E!tickVars, E!Marked
<1>5. CASE E!Expire
  BY <1>5 DEF ShapeInv, E!Expire, E!platform, E!tickVars, E!Marked, Delivered
<1>6. CASE E!NextWeek
  BY <1>6 DEF ShapeInv, E!NextWeek, E!platform, E!tickVars, E!Marked, Delivered, Honoured
<1>7. CASE E!Claim
  BY <1>7 DEF ShapeInv, E!Claim, E!platform, Delivered, Honoured
<1>8. CASE E!Accepted
  BY <1>8 DEF ShapeInv, E!Accepted, Delivered, Honoured, E!NoMessage
<1>9. CASE E!Failed
  BY <1>9 DEF ShapeInv, E!Failed, E!End, Delivered, Honoured
<1>10. CASE E!CompleteJob
  BY <1>10 DEF ShapeInv, E!CompleteJob, E!platform, Delivered, Honoured
<1>11. CASE E!Publish
  BY <1>11 DEF ShapeInv, E!Publish, E!platform, Delivered, Honoured
<1>12. CASE E!SetEssence
  BY <1>12 DEF ShapeInv, E!SetEssence, Delivered, Honoured
<1>13. CASE E!MarkFailed
  BY <1>13 DEF ShapeInv, E!MarkFailed, E!End, Delivered, Honoured
<1>14. CASE E!MarkSet
  BY <1>14 DEF ShapeInv, E!MarkSet, E!platform, Delivered, Honoured
<1>15. CASE E!Previous
  <2>1. \A w \in E!Latest(E!Marked \ {week}) : w # week /\ w \in E!Marked
    BY DEF E!Latest
  <2>. QED  BY <1>15, <2>1 DEF ShapeInv, E!Previous, E!End, E!platform, E!Marked, Delivered, Honoured
<1>16. CASE E!DeleteEssence
  <2>1. rows[old].message < msg /\ rows[old].message \in Nat
    BY <1>16, <1>1 DEF ShapeInv, RowInv, E!DeleteEssence, E!Marked, Report, E!Messages, Honoured
  <2>2. msg # rows[old].message
    BY <1>1, <2>1
  <2>. QED  BY <1>16, <2>2 DEF ShapeInv, E!DeleteEssence, E!End, E!Marked, Delivered, Honoured
<1>17. CASE E!MarkRemoved
  BY <1>17 DEF ShapeInv, E!MarkRemoved, E!End, Delivered, Honoured
<1>18. CASE E!Interrupted
  BY <1>18 DEF ShapeInv, E!Interrupted, E!End, Delivered, Honoured
<1>19. CASE UNCHANGED E!vars
  BY <1>19 DEF ShapeInv, E!vars, E!Marked
<1>. QED  BY <1>2, <1>3, <1>4, <1>5, <1>6, <1>7, <1>8, <1>9, <1>10, <1>11, <1>12, <1>13,
             <1>14, <1>15, <1>16, <1>17, <1>18, <1>19 DEF E!Next

\* Reports keep messages of their own.
LEMMA RowStep == E!TypeOK /\ ShapeInv /\ RowInv /\ [E!Next]_E!vars => RowInv'
<1> SUFFICES ASSUME E!TypeOK, ShapeInv, RowInv, [E!Next]_E!vars PROVE RowInv'
  OBVIOUS
<1>1. /\ week \in E!Weeks /\ week \in Nat /\ sent \in Nat /\ msg \in Nat
      /\ \A w \in E!Weeks : w \in Nat /\ rows[w].message \in Nat
  BY EssenceTypes
<1>2. CASE rows' = rows /\ UNCHANGED <<week, sent, msg>>
  BY <1>2 DEF RowInv
<1>3. CASE rows' = rows /\ week' = week /\ sent' = sent /\ msg' = E!NoMessage
  BY <1>3 DEF RowInv
<1>4. CASE E!RecordPlanned
  <2>1. \A w \in E!Weeks :
          /\ rows'[w].message \in {rows[w].message, E!NoMessage}
          /\ rows'[w] = rows[w] \/ (w = week /\ rows'[w].known)
    BY <1>1, <1>4, RowsAfter, Rewritten
  <2>2. UNCHANGED <<week, sent, msg>>
    BY <1>4 DEF E!RecordPlanned, E!platform, E!tickVars
  <2>. QED  BY <1>1, <2>1, <2>2 DEF RowInv, E!NoMessage
<1>5. CASE E!NextWeek
  BY <1>1, <1>5 DEF RowInv, ShapeInv, E!NextWeek, E!platform, E!tickVars
<1>6. CASE E!Accepted
  BY <1>1, <1>6 DEF RowInv, E!Accepted
<1>7. CASE E!Failed
  <2>1. UNCHANGED <<week, sent>> /\ msg' = E!NoMessage
    BY <1>7 DEF E!Failed, E!End, E!platform
  <2>2. \A w \in E!Weeks :
          /\ rows'[w].known = rows[w].known /\ rows'[w].essence = rows[w].essence
          /\ rows'[w].message \in {rows[w].message, E!NoMessage}
    BY <1>7, RowsAfter DEF KnownKept, MarksKept
  <2>. QED  BY <1>1, <2>1, <2>2 DEF RowInv, E!NoMessage
<1>8. CASE E!Publish
  <2>1. UNCHANGED <<week, sent, msg>>
    BY <1>8 DEF E!Publish, E!platform
  <2>2. \A w \in E!Weeks :
          /\ rows'[w].known = rows[w].known /\ rows'[w].essence = rows[w].essence
          /\ rows'[w].message = IF w = week /\ rows[week].known THEN msg ELSE rows[w].message
    BY <1>8, RowsAfter DEF KnownKept, MarksKept
  <2>. QED  BY <1>1, <2>1, <2>2 DEF RowInv, ShapeInv, E!NoMessage
<1>9. CASE E!MarkFailed \/ E!MarkSet \/ E!MarkRemoved
  <2>1. UNCHANGED <<week, sent>> /\ msg' \in {msg, E!NoMessage}
    BY <1>9 DEF E!MarkFailed, E!MarkSet, E!MarkRemoved, E!End, E!platform
  <2>2. \A w \in E!Weeks :
          rows'[w].known = rows[w].known /\ rows'[w].message = rows[w].message
    BY <1>9, RowsAfter DEF KnownKept, MessagesKept
  <2>3. E!MarkRemoved => rows[old].known
    BY DEF RowInv, ShapeInv, E!MarkRemoved, E!Marked
  <2>4. \A w \in E!Weeks : rows'[w].essence = rows[w].essence \/ rows[w].known
    BY <1>9, <2>3, RowsAfter
  <2>. QED  BY <1>1, <2>1, <2>2, <2>4 DEF RowInv
<1>10. rows' = rows \/ E!RecordPlanned \/ E!Publish \/ E!Failed \/ E!MarkFailed
         \/ E!MarkSet \/ E!MarkRemoved
  BY RowsAfter
<1>11. UNCHANGED <<week, sent>> \/ E!NextWeek \/ E!Accepted
  BY DEF E!Next, E!vars, E!Enqueue, E!RecordPlanned, E!PlannerDies, E!Expire, E!Claim, E!Failed,
         E!CompleteJob, E!Publish, E!SetEssence, E!MarkFailed, E!MarkSet, E!Previous,
         E!DeleteEssence, E!MarkRemoved, E!Interrupted, E!platform
<1>12. msg' \in {msg, E!NoMessage} \/ E!Accepted
  BY DEF E!Next, E!vars, E!Enqueue, E!RecordPlanned, E!PlannerDies, E!Expire, E!NextWeek, E!Claim,
         E!Failed, E!CompleteJob, E!Publish, E!SetEssence, E!MarkFailed, E!MarkSet, E!Previous,
         E!DeleteEssence, E!MarkRemoved, E!Interrupted, E!tickVars, E!End
<1>. QED  BY <1>2, <1>3, <1>4, <1>5, <1>6, <1>7, <1>8, <1>9, <1>10, <1>11, <1>12

\* The report at hand keeps its own message.
LEMMA RecordedStep ==
  E!TypeOK /\ RowInv /\ RecordedInv /\ [E!Next]_E!vars => RecordedInv'
<1> SUFFICES ASSUME E!TypeOK, RowInv, RecordedInv, [E!Next]_E!vars, pc' \in Recorded
             PROVE  rows'[week'].message \in {msg', E!NoMessage}
  BY DEF RecordedInv
<1>1. week \in E!Weeks
  BY EssenceTypes
<1>2. CASE E!Publish
  <2>1. UNCHANGED <<week, msg>>
    BY <1>2 DEF E!Publish, E!platform
  <2>2. rows'[week].message = IF rows[week].known THEN msg ELSE rows[week].message
    BY <1>1, <1>2, RowsAfter
  <2>. QED  BY <1>1, <2>1, <2>2 DEF RowInv
<1>3. CASE ~ E!Publish
  <2>1. pc \in Recorded /\ UNCHANGED <<week, msg>>
    BY <1>3 DEF Recorded, Delivered, E!Next, E!vars, E!Enqueue, E!RecordPlanned, E!PlannerDies, E!Expire,
           E!NextWeek, E!Claim, E!Accepted, E!Failed, E!CompleteJob, E!SetEssence, E!MarkFailed,
           E!MarkSet, E!Previous, E!DeleteEssence, E!MarkRemoved, E!Interrupted, E!tickVars, E!End
  <2>2. ~ E!Failed
    BY <2>1 DEF E!Failed, Recorded, Delivered
  <2>3. rows'[week].message \in {rows[week].message, E!NoMessage}
    BY <1>1, <1>3, <2>2, RowsAfter, Rewritten DEF MessagesKept
  <2>. QED  BY <2>1, <2>3 DEF RecordedInv
<1>. QED  BY <1>2, <1>3

\* A row is found as long as there is one.
LEMMA LatestExists ==
  ASSUME NEW C, C \subseteq E!Weeks, C # {}
  PROVE  E!Latest(C) # {}
<1>1. CASE \E w \in C : ~ rows[w].published
  BY <1>1 DEF E!Latest
<1>2. CASE \A w \in C : rows[w].published
  <2> DEFINE below == {MaxWeeks - x : x \in C}
  <2>1. MaxWeeks \in Nat /\ \A x \in C : x \in Nat /\ MaxWeeks - x \in Nat
    BY EssenceBounds DEF E!EssenceConstants, E!Weeks
  <2>2. below \subseteq Nat /\ below # {}
    BY <2>1
  <2>3. IsWellFoundedOn(OpToRel(<, Nat), Nat)
    BY NatLessThanWellFounded
  <2>4. PICK b \in below : \A c \in below : ~ (<<c, b>> \in OpToRel(<, Nat))
    BY <2>2, <2>3, WFMin
  <2>5. \A c \in below : ~ (c < b)
    BY <2>2, <2>4 DEF OpToRel
  <2>6. PICK x \in C : b = MaxWeeks - x
    OBVIOUS
  <2>7. \A y \in C : y <= x
    <3> SUFFICES ASSUME NEW y \in C PROVE y <= x
      OBVIOUS
    <3>1. ~ (MaxWeeks - y < MaxWeeks - x)
      BY <2>5, <2>6
    <3>. QED  BY <2>1, <3>1
  <2>. QED  BY <1>2, <2>7 DEF E!Latest
<1>. QED  BY <1>1, <1>2

\* Counting messages.
LEMMA Counting ==
  ASSUME NEW S \in SUBSET E!Messages, NEW T \in SUBSET E!Messages
  PROVE  /\ Cardinality(S) \in Nat /\ Cardinality(T) \in Nat
         /\ S \subseteq T => Cardinality(S) <= Cardinality(T)
         /\ \A x : S \subseteq T \cup {x} => Cardinality(S) <= Cardinality(T) + 1
         /\ \A x \in T : S \subseteq T \ {x} => Cardinality(S) + 1 <= Cardinality(T)
<1>1. IsFiniteSet(S) /\ IsFiniteSet(T)
  <2>1. IsFiniteSet(E!Messages)
    BY EssenceBounds, FS_Interval DEF E!EssenceConstants, E!Messages
  <2>. QED  BY <2>1, FS_Subset
<1>2. Cardinality(S) \in Nat /\ Cardinality(T) \in Nat
  BY <1>1, FS_CardinalityType
<1>3. S \subseteq T => Cardinality(S) <= Cardinality(T)
  BY <1>1, FS_Subset
<1>4. ASSUME NEW x, S \subseteq T \cup {x} PROVE Cardinality(S) <= Cardinality(T) + 1
  <2>1. /\ IsFiniteSet(T \cup {x})
        /\ Cardinality(T \cup {x}) = IF x \in T THEN Cardinality(T) ELSE Cardinality(T) + 1
    BY <1>1, FS_AddElement
  <2>2. Cardinality(S) <= Cardinality(T \cup {x}) /\ Cardinality(T \cup {x}) \in Nat
    BY <1>4, <2>1, FS_Subset, FS_CardinalityType
  <2>. QED  BY <1>2, <2>1, <2>2
<1>5. ASSUME NEW x \in T, S \subseteq T \ {x} PROVE Cardinality(S) + 1 <= Cardinality(T)
  <2>1. IsFiniteSet(T \ {x}) /\ Cardinality(T \ {x}) = Cardinality(T) - 1
    BY <1>1, FS_RemoveElement
  <2>2. Cardinality(S) <= Cardinality(T \ {x})
    BY <1>5, <2>1, FS_Subset
  <2>. QED  BY <1>2, <2>1, <2>2
<1>. QED  BY <1>2, <1>3, <1>4, <1>5

LEMMA HeldAreMessages == E!TypeOK => Held \in SUBSET E!Messages
<1> SUFFICES ASSUME E!TypeOK PROVE Held \in SUBSET E!Messages
  OBVIOUS
<1>1. \A w \in E!Weeks : rows[w].message \in E!Messages \cup {E!NoMessage}
  BY EssenceTypes DEF Report
<1>. QED  BY <1>1 DEF E!TypeOK, Held, Shown, E!Marked

\* Places are numbers, and so they are after a step.
RoomsOK ==
  /\ Held \in SUBSET E!Messages
  /\ Mishaps \in Nat /\ One(Others # {}) \in {0, 1} /\ One(Extra) \in {0, 1}
  /\ Room = Mishaps + One(Others # {}) + One(Extra) /\ Room \in Nat

LEMMA Rooms == E!TypeOK => RoomsOK
<1> SUFFICES ASSUME E!TypeOK PROVE RoomsOK
  OBVIOUS
<1>1. Mishaps \in Nat
  BY EssenceTypes DEF Mishaps
<1>2. One(Others # {}) \in {0, 1} /\ One(Extra) \in {0, 1}
  BY DEF One
<1>. QED  BY <1>1, <1>2, HeldAreMessages DEF Room, RoomsOK

LEMMA RoomsAfter == E!TypeOK' => RoomsOK'
BY Rooms, PTL

\* What bounds the messages after a step.
LEMMA Enough ==
  ASSUME E!TypeOK, E!TypeOK', HeldInv, Mute' = {} => Mute = {},
         \/ Held' \subseteq Held /\ Room <= Room'
         \/ \E x : Held' \subseteq Held \cup {x} /\ Room + 1 <= Room'
         \/ \E x \in Held : Held' \subseteq Held \ {x} /\ Room <= Room' + 1
  PROVE  HeldInv'
<1> SUFFICES ASSUME Mute' = {} PROVE Cardinality(Held') <= Room'
  BY DEF HeldInv
<1>1. Cardinality(Held) <= Room
  BY DEF HeldInv
<1>2. Held \in SUBSET E!Messages /\ Held' \in SUBSET E!Messages
  BY Rooms, RoomsAfter DEF RoomsOK
<1>3. Room \in Nat /\ Room' \in Nat
  BY Rooms, RoomsAfter DEF RoomsOK
<1>4. CASE Held' \subseteq Held /\ Room <= Room'
  BY <1>1, <1>2, <1>3, <1>4, Counting
<1>5. CASE \E x : Held' \subseteq Held \cup {x} /\ Room + 1 <= Room'
  <2>1. Cardinality(Held') <= Cardinality(Held) + 1
    BY <1>2, <1>5, Counting
  <2>2. Cardinality(Held) \in Nat /\ Cardinality(Held') \in Nat
    BY <1>2, Counting
  <2>. QED  BY <1>1, <1>3, <1>5, <2>1, <2>2
<1>6. CASE \E x \in Held : Held' \subseteq Held \ {x} /\ Room <= Room' + 1
  <2>1. Cardinality(Held') + 1 <= Cardinality(Held)
    BY <1>2, <1>6, Counting
  <2>2. Cardinality(Held) \in Nat /\ Cardinality(Held') \in Nat
    BY <1>2, Counting
  <2>3. Room <= Room' + 1
    BY <1>6
  <2>4. \A a, b, c, d \in Nat : a + 1 <= b /\ b <= c /\ c <= d + 1 => a <= d
    OBVIOUS
  <2>. QED  BY <1>1, <1>3, <2>1, <2>2, <2>3, <2>4
<1>. QED  BY <1>4, <1>5, <1>6

\* What the planner records does not touch a message or an essence.
LEMMA RecordKeeps ==
  ASSUME E!TypeOK, RowInv, E!RecordPlanned
  PROVE  /\ UNCHANGED <<week, essence, msg, pc, job, old, late, refusals, lost, faults>>
         /\ MessagesKept /\ MarksKept /\ (rows[week].known => rows'[week].known)
<1>1. \A w \in E!Weeks :
        rows'[w] = IF w = week /\ ~ rows[week].known THEN E!Planned ELSE rows[w]
  BY RowsAfter
<1>2. week \in E!Weeks
  BY EssenceTypes
<1>3. E!Planned.message = E!NoMessage /\ E!Planned.essence = "none"
  BY Rewritten
<1>4. ~ rows[week].known => rows[week].message = E!NoMessage /\ rows[week].essence = "none"
  BY <1>2 DEF RowInv
<1>5. ASSUME NEW w \in E!Weeks
      PROVE  rows'[w].message = rows[w].message /\ rows'[w].essence = rows[w].essence
  <2>1. CASE w = week /\ ~ rows[week].known
    BY <1>1, <1>3, <1>4, <2>1
  <2>2. CASE ~ (w = week /\ ~ rows[week].known)
    BY <1>1, <2>2
  <2>. QED  BY <2>1, <2>2
<1>6. UNCHANGED <<week, essence, msg, pc, job, old, late, refusals, lost, faults>>
  BY DEF E!RecordPlanned, E!platform, E!tickVars, E!history
<1>. QED  BY <1>1, <1>2, <1>5, <1>6 DEF MessagesKept, MarksKept

\* A step that leaves messages and marks alone.
LEMMA SameMarks ==
  ASSUME MessagesKept, MarksKept, week' = week
  PROVE  E!Marked' = E!Marked /\ Shown' = Shown /\ Others' = Others /\ Mute' = Mute
<1>1. E!Marked' = E!Marked
  BY DEF MarksKept, E!Marked
<1>2. \A w \in E!Marked : rows'[w].message = rows[w].message
  BY DEF MessagesKept, E!Marked
<1>. QED  BY <1>1, <1>2 DEF Shown, Others, Mute

\* Rooms after a step.
LEMMA RoomAfter ==
  ASSUME E!TypeOK, E!TypeOK', NEW d \in Nat, Mishaps + d <= Mishaps',
         Others # {} => Others' # {}
  PROVE  /\ (Extra => Extra' \/ d > 0) => Room <= Room'
         /\ ~ Extra /\ Extra' => Room + 1 <= Room'
<1>1. /\ Mishaps \in Nat /\ One(Others # {}) \in {0, 1} /\ One(Extra) \in {0, 1}
      /\ Room = Mishaps + One(Others # {}) + One(Extra)
  BY Rooms DEF RoomsOK
<1>2. /\ Mishaps' \in Nat /\ One(Others # {})' \in {0, 1} /\ One(Extra)' \in {0, 1}
      /\ Room' = Mishaps' + One(Others # {})' + One(Extra)'
  BY RoomsAfter DEF RoomsOK
<1>3. One(Others # {}) <= One(Others # {})'
  BY DEF One
<1>4. One(Extra) = (IF Extra THEN 1 ELSE 0) /\ One(Extra)' = (IF Extra' THEN 1 ELSE 0)
  BY DEF One
<1>. QED  BY <1>1, <1>2, <1>3, <1>4

\* The reports that have the place of honour, or may get it, are as many as there are
\* mishaps, and one more for each of the last report and the one before it.
LEMMA HeldStep ==
  E!TypeOK /\ E!TypeOK' /\ ShapeInv /\ RowInv /\ RecordedInv /\ HeldInv /\ [E!Next]_E!vars
    => HeldInv'
<1> SUFFICES ASSUME E!TypeOK, E!TypeOK', ShapeInv, RowInv, RecordedInv, HeldInv,
                    [E!Next]_E!vars
             PROVE  HeldInv'
  OBVIOUS
<1>1. /\ week \in E!Weeks /\ late \in Nat /\ refusals \in Nat /\ lost \in Nat /\ faults \in Nat
      /\ \A w \in E!Weeks : rows[w].message \in Nat
  BY EssenceTypes
<1>2. CASE \/ E!Enqueue \/ E!PlannerDies \/ E!Expire \/ E!Claim \/ E!CompleteJob
           \/ UNCHANGED E!vars
  <2>1. rows' = rows /\ UNCHANGED <<week, essence, msg>> /\ MessagesKept /\ MarksKept
    BY <1>2 DEF E!Enqueue, E!PlannerDies, E!Expire, E!Claim, E!CompleteJob, E!vars, E!platform,
                E!tickVars, MessagesKept, MarksKept
  <2>2. E!Marked' = E!Marked /\ Shown' = Shown /\ Others' = Others /\ Mute' = Mute
    BY <2>1, SameMarks
  <2>3. Mishaps + 0 <= Mishaps'
    BY <1>1, <1>2 DEF Mishaps, E!Enqueue, E!PlannerDies, E!Expire, E!Claim, E!CompleteJob, E!vars,
                      E!history
  <2>4. Extra => Extra'
    BY <1>2, <2>1, <2>2 DEF Extra, E!Enqueue, E!PlannerDies, E!Expire, E!Claim, E!CompleteJob,
                            E!vars, E!tickVars
  <2>5. Held' = Held
    BY <2>1, <2>2 DEF Held
  <2>. QED  BY <2>2, <2>3, <2>4, <2>5, Enough, RoomAfter
<1>3. CASE E!RecordPlanned
  <2>1. /\ UNCHANGED <<week, essence, msg, pc, job, old, late, refusals, lost, faults>>
        /\ MessagesKept /\ MarksKept /\ (rows[week].known => rows'[week].known)
    BY <1>3, RecordKeeps
  <2>2. E!Marked' = E!Marked /\ Shown' = Shown /\ Others' = Others /\ Mute' = Mute
    BY <2>1, SameMarks
  <2>3. Mishaps + 0 <= Mishaps'
    BY <1>1, <2>1 DEF Mishaps
  <2>4. (Extra => Extra') /\ Held' = Held
    BY <2>1, <2>2 DEF Extra, Held
  <2>. QED  BY <2>2, <2>3, <2>4, Enough, RoomAfter
<1>4. CASE E!NextWeek
  <2>1. /\ week' = week + 1 /\ job' = "none" /\ pc = "idle" /\ pc' = "idle" /\ rows' = rows
        /\ UNCHANGED <<essence, msg, late, refusals, lost, faults>>
    BY <1>4 DEF E!NextWeek, E!platform, E!tickVars, E!history
  <2>2. E!Marked' = E!Marked /\ Shown' = Shown /\ Held' = Held /\ Mishaps' = Mishaps
    BY <2>1 DEF E!Marked, Shown, Held, Mishaps
  <2>3. week + 1 \in E!Weeks /\ week + 1 > week
    BY <2>1, EssenceTypes DEF E!TypeOK, E!Weeks
  <2>4. week + 1 \notin E!Marked
    BY <2>3 DEF RowInv, E!Marked
  <2>5. Others' = E!Marked /\ Mute \subseteq Mute'
    BY <2>1, <2>2, <2>4 DEF Others, Mute
  <2>6. Room <= Room'
    <3>1. /\ Mishaps \in Nat /\ Room = Mishaps + One(Others # {}) + One(Extra)
          /\ One(Others # {}) = (IF Others # {} THEN 1 ELSE 0)
          /\ One(Extra) = (IF Extra THEN 1 ELSE 0)
      BY Rooms DEF One, RoomsOK
    <3>2. /\ Room' = Mishaps' + One(Others # {})' + One(Extra)'
          /\ One(Others # {})' = (IF Others' # {} THEN 1 ELSE 0) /\ One(Extra)' \in {0, 1}
      BY DEF Room, One
    <3>3. Extra => Others = {} /\ Others' # {}
      BY <2>1, <2>5 DEF Extra
    <3>4. Others # {} => Others' # {}
      BY <2>5 DEF Others
    <3>. QED  BY <2>2, <3>1, <3>2, <3>3, <3>4
  <2>. QED  BY <2>2, <2>5, <2>6, Enough
<1>5. CASE E!Accepted
  <2>1. /\ pc = "send" /\ pc' = "complete" /\ rows' = rows
        /\ UNCHANGED <<week, essence, late, refusals, lost, faults>>
        /\ MessagesKept /\ MarksKept
    BY <1>5 DEF E!Accepted, E!history, MessagesKept, MarksKept
  <2>2. E!Marked' = E!Marked /\ Shown' = Shown /\ Others' = Others /\ Mute' = Mute
    BY <2>1, SameMarks
  <2>3. Mishaps + 0 <= Mishaps'
    BY <1>1, <2>1 DEF Mishaps
  <2>4. ~ Extra /\ (Extra' <=> msg' # E!NoMessage)
    BY <2>1 DEF Extra
  <2>5. Held' \subseteq Held \cup {msg'} /\ (msg' = E!NoMessage => Held' \subseteq Held)
    BY <2>1, <2>2 DEF Held
  <2>. QED  BY <2>2, <2>3, <2>4, <2>5, Enough, RoomAfter
<1>6. CASE E!Failed
  <2>1. /\ pc = "send" /\ msg' = E!NoMessage
        /\ UNCHANGED <<week, essence, refusals, lost, faults>> /\ late' >= late
    BY <1>1, <1>6 DEF E!Failed, E!End, E!platform, E!Late
  <2>2. /\ E!Marked' = E!Marked
        /\ \A w \in E!Weeks : \/ rows'[w].message = rows[w].message
                              \/ w = week /\ rows'[w].message = E!NoMessage
    BY <1>6, RowsAfter DEF MarksKept, E!Marked
  <2>3. Others' = Others /\ Mute' = Mute /\ Shown' \subseteq Shown \cup {E!NoMessage}
    BY <2>1, <2>2 DEF Others, Mute, Shown, E!Marked
  <2>4. Mishaps + 0 <= Mishaps'
    BY <1>1, <2>1, EssenceTypes DEF Mishaps, E!TypeOK
  <2>5. ~ Extra /\ Held' \subseteq Held
    BY <2>1, <2>3 DEF Extra, Held
  <2>. QED  BY <2>3, <2>4, <2>5, Enough, RoomAfter
<1>7. CASE E!Publish
  <2>1. /\ pc = "publish" /\ pc' = "set" /\ UNCHANGED <<week, essence, msg, refusals, lost, faults>>
        /\ late' = IF rows[week].known THEN late ELSE late + 1
    BY <1>7 DEF E!Publish, E!platform, E!Late
  <2>2. /\ E!Marked' = E!Marked /\ rows'[week].known = rows[week].known
        /\ \A w \in E!Weeks : rows'[w].message =
             IF w = week /\ rows[week].known THEN msg ELSE rows[w].message
    BY <1>1, <1>7, RowsAfter DEF KnownKept, MarksKept, E!Marked
  <2>3. Others' = Others /\ Mute' = Mute /\ Shown' \subseteq Shown \cup {msg}
    BY <2>1, <2>2 DEF Others, Mute, Shown, E!Marked
  <2>4. Held' \subseteq Held
    BY <2>1, <2>3 DEF Held
  <2>5. CASE rows[week].known
    <3>1. Mishaps + 0 <= Mishaps' /\ (Extra => Extra')
      BY <1>1, <2>1, <2>2, <2>5 DEF Mishaps, Extra
    <3>. QED  BY <2>3, <2>4, <3>1, Enough, RoomAfter
  <2>6. CASE ~ rows[week].known
    <3>1. Mishaps + 1 <= Mishaps'
      BY <1>1, <2>1, <2>6 DEF Mishaps
    <3>. QED  BY <2>3, <2>4, <3>1, Enough, RoomAfter
  <2>. QED  BY <2>5, <2>6
<1>8. CASE E!SetEssence
  <2>1. /\ pc = "set" /\ pc' \in {"mark", "fail"} /\ rows' = rows
        /\ UNCHANGED <<week, msg, late, faults>> /\ essence' \subseteq essence \cup {msg}
        /\ MessagesKept /\ MarksKept
    BY <1>8 DEF E!SetEssence, MessagesKept, MarksKept
  <2>2. E!Marked' = E!Marked /\ Shown' = Shown /\ Others' = Others /\ Mute' = Mute
    BY <2>1, SameMarks
  <2>3. Held' \subseteq Held
    BY <2>1, <2>2 DEF Held
  <2>4. CASE pc' = "mark" \/ msg = E!NoMessage
    <3>1. UNCHANGED <<refusals, lost>>
      BY <1>8, <2>4 DEF E!SetEssence, E!Works
    <3>2. Mishaps + 0 <= Mishaps' /\ (Extra => Extra')
      BY <1>1, <2>1, <2>4, <3>1 DEF Mishaps, Extra
    <3>. QED  BY <2>2, <2>3, <3>2, Enough, RoomAfter
  <2>5. CASE ~ (pc' = "mark" \/ msg = E!NoMessage)
    <3>1. refusals' + lost' = refusals + lost + 1 /\ refusals' \in Nat /\ lost' \in Nat
      BY <1>1, <1>8, <2>5 DEF E!SetEssence, E!Refused, E!Unanswered
    <3>2. Mishaps + 1 <= Mishaps'
      BY <1>1, <2>1, <3>1 DEF Mishaps
    <3>. QED  BY <2>2, <2>3, <3>2, Enough, RoomAfter
  <2>. QED  BY <2>4, <2>5
<1>9. CASE E!MarkFailed
  <2>1. /\ pc = "fail" /\ msg' = E!NoMessage
        /\ UNCHANGED <<week, essence, late, refusals, lost, faults>>
    BY <1>9 DEF E!MarkFailed, E!End, E!platform, E!history
  <2>2. /\ \A w \in E!Weeks : rows'[w].message = rows[w].message
        /\ \A w \in E!Weeks \ {week} : rows'[w].essence = rows[w].essence
        /\ rows'[week].essence \in {"failed", rows[week].essence}
    BY <1>1, <1>9, RowsAfter DEF MessagesKept
  <2>3. Others' = Others /\ E!Marked' \subseteq E!Marked
    BY <2>1, <2>2 DEF Others, E!Marked
  <2>4. Mute' = Mute /\ Shown' \subseteq Shown
    BY <2>2, <2>3 DEF Mute, Shown, Others, E!Marked
  <2>5. ~ Extra /\ Held' \subseteq Held
    BY <2>1, <2>4 DEF Extra, Held
  <2>6. Mishaps + 0 <= Mishaps'
    BY <1>1, <2>1 DEF Mishaps
  <2>. QED  BY <2>3, <2>4, <2>5, <2>6, Enough, RoomAfter
<1>10. CASE E!MarkSet
  <2>1. /\ pc = "mark" /\ pc' = "previous"
        /\ UNCHANGED <<week, essence, msg, late, refusals, lost, faults>>
    BY <1>10 DEF E!MarkSet, E!platform, E!history
  <2>2. /\ \A w \in E!Weeks : rows'[w].message = rows[w].message
        /\ \A w \in E!Weeks : rows'[w].essence =
             IF w = week /\ rows[week].known THEN "set" ELSE rows[w].essence
    BY <1>10, RowsAfter DEF MessagesKept
  <2>3. Others' = Others /\ E!Marked' \subseteq E!Marked \cup {week}
    BY <2>1, <2>2 DEF Others, E!Marked
  <2>4. Mute' = Mute /\ Shown' \subseteq Shown \cup {rows[week].message}
    BY <1>1, <2>2, <2>3 DEF Mute, Shown, Others, E!Marked
  <2>5. rows[week].message \in {msg, E!NoMessage}
    BY <2>1 DEF RecordedInv, Recorded, Delivered
  <2>6. Held' \subseteq Held
    BY <2>1, <2>4, <2>5 DEF Held
  <2>7. Extra => Extra'
    BY <1>1, <2>1, <2>2 DEF Extra, E!Marked
  <2>8. Mishaps + 0 <= Mishaps'
    BY <1>1, <2>1 DEF Mishaps
  <2>. QED  BY <2>3, <2>4, <2>6, <2>7, <2>8, Enough, RoomAfter
<1>11. CASE E!Previous
  <2>1. /\ pc = "previous" /\ rows' = rows /\ job' = job /\ job = "sent"
        /\ UNCHANGED <<week, essence, late, refusals, lost, faults>>
        /\ MessagesKept /\ MarksKept
    BY <1>11 DEF E!Previous, E!platform, E!history, MessagesKept, MarksKept, ShapeInv, Delivered
  <2>2. E!Marked' = E!Marked /\ Shown' = Shown /\ Others' = Others /\ Mute' = Mute
    BY <2>1, SameMarks
  <2>3. Mishaps + 0 <= Mishaps'
    BY <1>1, <2>1 DEF Mishaps
  <2>4. CASE E!Latest(Others) = {} /\ pc' = "idle" /\ msg' = E!NoMessage
    <3>1. Others = {}
      BY <2>4, LatestExists DEF Others, E!Marked
    <3>2. (Extra => Extra') /\ Held' \subseteq Held
      BY <2>1, <2>2, <2>4, <3>1 DEF Extra, Held
    <3>. QED  BY <2>2, <2>3, <3>2, Enough, RoomAfter
  <2>5. CASE \E w \in E!Latest(Others) : rows[w].message = E!NoMessage
    <3>1. Mute # {}
      BY <2>5 DEF E!Latest, Mute
    <3>. QED  BY <2>2, <3>1 DEF HeldInv
  <2>6. CASE pc' = "delete" /\ msg' = msg
    <3>1. (Extra => Extra') /\ Held' = Held
      BY <2>1, <2>2, <2>6 DEF Extra, Held
    <3>. QED  BY <2>2, <2>3, <3>1, Enough, RoomAfter
  <2>. QED  BY <1>11, <2>4, <2>5, <2>6 DEF E!Previous, E!End, Others
<1>12. CASE E!DeleteEssence
  <2>1. /\ pc = "delete" /\ rows' = rows /\ UNCHANGED <<week, late, faults>>
        /\ essence' \subseteq essence /\ msg' \in {msg, E!NoMessage}
        /\ MessagesKept /\ MarksKept
    BY <1>12 DEF E!DeleteEssence, E!End, MessagesKept, MarksKept
  <2>2. E!Marked' = E!Marked /\ Shown' = Shown /\ Others' = Others /\ Mute' = Mute
    BY <2>1, SameMarks
  <2>3. Held' \subseteq Held
    BY <2>1, <2>2 DEF Held
  <2>4. CASE E!Works /\ pc' = "remove"
    <3>1. Mishaps + 0 <= Mishaps' /\ (Extra => Extra')
      BY <1>1, <2>1, <2>2, <2>4 DEF Mishaps, Extra, E!Works
    <3>. QED  BY <2>2, <2>3, <3>1, Enough, RoomAfter
  <2>5. CASE E!Unanswered \/ E!Refused
    <3>1. refusals' + lost' = refusals + lost + 1 /\ refusals' \in Nat /\ lost' \in Nat
      BY <1>1, <2>5 DEF E!Refused, E!Unanswered
    <3>2. Mishaps + 1 <= Mishaps'
      BY <1>1, <2>1, <3>1 DEF Mishaps
    <3>. QED  BY <2>2, <2>3, <3>2, Enough, RoomAfter
  <2>. QED  BY <1>12, <2>4, <2>5 DEF E!DeleteEssence
<1>13. CASE E!MarkRemoved
  <2> DEFINE x == rows[old].message
  <2>1. /\ pc = "remove" /\ pc' = "idle" /\ msg' = E!NoMessage /\ job' = job /\ job = "sent"
        /\ UNCHANGED <<week, essence, late, refusals, lost, faults>>
    BY <1>13 DEF E!MarkRemoved, E!End, E!platform, E!history, ShapeInv, Delivered
  <2>2. /\ old # week /\ old \in E!Marked /\ x # E!NoMessage /\ x \notin essence
    BY <2>1 DEF ShapeInv
  <2>3. /\ \A w \in E!Weeks : rows'[w].message = rows[w].message
        /\ \A w \in E!Weeks :
             rows'[w].essence = IF w = old THEN "removed" ELSE rows[w].essence
    BY <1>13, RowsAfter DEF MessagesKept
  <2>4. E!Marked' = E!Marked \ {old} /\ Others' = Others \ {old}
    BY <2>1, <2>3 DEF E!Marked, Others
  <2>5. Shown' \subseteq Shown /\ x \notin Shown'
    BY <2>2, <2>3, <2>4 DEF Shown, E!Marked, RowInv
  <2>6. x \in Held /\ Held' \subseteq Held \ {x}
    BY <2>1, <2>2, <2>5 DEF Held, Shown
  <2>7. Mute' = {} => Mute = {}
    BY <2>2, <2>3, <2>4 DEF Mute, Others, E!Marked
  <2>8. Room <= Room' + 1
    <3>1. /\ Mishaps \in Nat /\ Room = Mishaps + One(Others # {}) + One(Extra)
          /\ One(Others # {}) = 1 /\ One(Extra) = (IF week \in E!Marked THEN 1 ELSE 0)
      BY <2>1, <2>2, Rooms DEF One, RoomsOK, Others, Extra
    <3>2. /\ Room' = Mishaps' + One(Others # {})' + One(Extra)'
          /\ One(Others # {})' = (IF Others' # {} THEN 1 ELSE 0)
          /\ One(Extra)' = (IF Extra' THEN 1 ELSE 0)
      BY DEF Room, One
    <3>3. Mishaps' = Mishaps
      BY <2>1 DEF Mishaps
    <3>4. week \in E!Marked /\ Others' = {} => Extra'
      BY <2>1, <2>2, <2>4 DEF Extra
    <3>. QED  BY <3>1, <3>2, <3>3, <3>4
  <2>. HIDE DEF x
  <2>. QED  BY <2>6, <2>7, <2>8, Enough
<1>14. CASE E!Interrupted
  <2>1. /\ msg' = E!NoMessage /\ rows' = rows /\ faults' = faults + 1
        /\ UNCHANGED <<week, essence, late, refusals, lost>> /\ MessagesKept /\ MarksKept
    BY <1>14 DEF E!Interrupted, E!End, E!platform, MessagesKept, MarksKept
  <2>2. E!Marked' = E!Marked /\ Shown' = Shown /\ Others' = Others /\ Mute' = Mute
    BY <2>1, SameMarks
  <2>3. Mishaps + 1 <= Mishaps' /\ Held' \subseteq Held
    BY <1>1, <2>1, <2>2 DEF Mishaps, Held
  <2>. QED  BY <2>2, <2>3, Enough, RoomAfter
<1>. QED  BY <1>2, <1>3, <1>4, <1>5, <1>6, <1>7, <1>8, <1>9, <1>10, <1>11, <1>12, <1>13, <1>14
          DEF E!Next

\* As long as nothing went wrong, the rows tell what the platform shows.
LEMMA KnownStep ==
  E!TypeOK /\ E!TypeOK' /\ ShapeInv /\ RowInv /\ KnownInv /\ [E!Next]_E!vars => KnownInv'
<1> SUFFICES ASSUME E!TypeOK, E!TypeOK', ShapeInv, RowInv, KnownInv, [E!Next]_E!vars,
                    lost' = 0, faults' = 0, late' = 0
             PROVE  /\ pc' \in Recorded =>
                         rows'[week'].known /\ rows'[week'].message = msg'
                    /\ week' \in E!Marked' => pc' \in {"previous", "delete", "remove"}
                                                \/ (pc' = "idle" /\ job' = "sent")
                    /\ essence' = IF pc' = "mark" THEN Shown' \cup {msg'}
                                  ELSE IF pc' = "remove" THEN Shown' \ {rows'[old'].message}
                                                         ELSE Shown'
  BY DEF KnownInv
<1>1. /\ week \in E!Weeks /\ late \in Nat /\ refusals \in Nat /\ lost \in Nat /\ faults \in Nat
      /\ \A w \in E!Weeks : rows[w].message \in Nat
  BY EssenceTypes
<1>2. lost = 0 /\ faults = 0 /\ late = 0
  BY <1>1 DEF E!Next, E!vars, E!Enqueue, E!RecordPlanned, E!PlannerDies, E!Expire, E!NextWeek,
         E!Claim, E!Accepted, E!Failed, E!CompleteJob, E!Publish, E!SetEssence, E!MarkFailed,
         E!MarkSet, E!Previous, E!DeleteEssence, E!MarkRemoved, E!Interrupted, E!history,
         E!Late, E!Works, E!Refused, E!Unanswered
<1>3. /\ pc \in Recorded => rows[week].known /\ rows[week].message = msg
      /\ week \in E!Marked => pc \in {"previous", "delete", "remove"}
                                \/ (pc = "idle" /\ job = "sent")
      /\ essence = IF pc = "mark" THEN Shown \cup {msg}
                   ELSE IF pc = "remove" THEN Shown \ {rows[old].message} ELSE Shown
  BY <1>2 DEF KnownInv
<1>4. CASE \/ E!Enqueue \/ E!PlannerDies \/ E!Expire \/ E!Claim \/ E!CompleteJob \/ E!Accepted
           \/ UNCHANGED E!vars
  <2>1. rows' = rows /\ UNCHANGED <<week, essence, old>> /\ MessagesKept /\ MarksKept
    BY <1>4 DEF E!Enqueue, E!PlannerDies, E!Expire, E!Claim, E!CompleteJob, E!Accepted, E!vars,
                E!platform, E!tickVars, MessagesKept, MarksKept
  <2>2. E!Marked' = E!Marked /\ Shown' = Shown
    BY <2>1, SameMarks
  <2>. QED  BY <1>3, <1>4, <2>1, <2>2 DEF E!Enqueue, E!PlannerDies, E!Expire, E!Claim,
               E!CompleteJob, E!Accepted, E!vars, E!tickVars, Recorded, Delivered, ShapeInv,
               E!TypeOK
<1>5. CASE E!RecordPlanned
  <2>1. /\ UNCHANGED <<week, essence, msg, pc, job, old>> /\ MessagesKept /\ MarksKept
        /\ (rows[week].known => rows'[week].known)
    BY <1>5, RecordKeeps
  <2>2. E!Marked' = E!Marked /\ Shown' = Shown
    BY <2>1, SameMarks
  <2>3. pc = "remove" => rows'[old].message = rows[old].message
    BY <2>1 DEF MessagesKept, ShapeInv, E!Marked
  <2>. QED  BY <1>1, <1>3, <2>1, <2>2, <2>3 DEF MessagesKept
<1>6. CASE E!NextWeek
  <2>1. /\ week' = week + 1 /\ pc = "idle" /\ pc' = "idle" /\ rows' = rows /\ essence' = essence
    BY <1>6 DEF E!NextWeek, E!platform, E!tickVars
  <2>2. E!Marked' = E!Marked /\ Shown' = Shown
    BY <2>1 DEF E!Marked, Shown
  <2>3. week + 1 \in E!Weeks /\ week + 1 > week
    BY <2>1, EssenceTypes DEF E!TypeOK, E!Weeks
  <2>4. week + 1 \notin E!Marked
    BY <2>3 DEF RowInv, E!Marked
  <2>. QED  BY <1>3, <2>1, <2>2, <2>4 DEF Recorded, Delivered
<1>7. CASE E!Failed
  <2>1. /\ pc = "send" /\ pc' = "idle" /\ UNCHANGED <<week, essence>>
    BY <1>7 DEF E!Failed, E!End, E!platform
  <2>2. /\ E!Marked' = E!Marked /\ week \notin E!Marked
        /\ \A w \in E!Marked : rows'[w].message = rows[w].message
    BY <1>3, <1>7, <2>1, RowsAfter DEF MarksKept, E!Marked
  <2>3. Shown' = Shown
    BY <2>2 DEF Shown
  <2>. QED  BY <1>3, <2>1, <2>2, <2>3 DEF Recorded, Delivered
<1>8. CASE E!Publish
  <2>1. /\ pc = "publish" /\ pc' = "set" /\ UNCHANGED <<week, essence, msg>>
        /\ rows[week].known
    BY <1>2, <1>8 DEF E!Publish, E!platform, E!Late
  <2>2. /\ E!Marked' = E!Marked /\ rows'[week].known = rows[week].known
        /\ \A w \in E!Weeks : rows'[w].message = IF w = week THEN msg ELSE rows[w].message
    BY <1>1, <1>8, <2>1, RowsAfter DEF KnownKept, MarksKept, E!Marked
  <2>3. week \notin E!Marked
    BY <1>3, <2>1
  <2>4. Shown' = Shown
    BY <2>2, <2>3 DEF Shown, E!Marked
  <2>. QED  BY <1>1, <1>3, <2>1, <2>2, <2>3, <2>4
<1>9. CASE E!SetEssence
  <2>1. /\ pc = "set" /\ rows' = rows /\ UNCHANGED <<week, msg>> /\ MessagesKept /\ MarksKept
        /\ (pc' = "mark" /\ essence' = essence \cup {msg}) \/ (pc' = "fail" /\ essence' = essence)
    BY <1>1, <1>2, <1>9 DEF E!SetEssence, E!Works, E!Unanswered, E!Refused, MessagesKept, MarksKept
  <2>2. E!Marked' = E!Marked /\ Shown' = Shown
    BY <2>1, SameMarks
  <2>. QED  BY <1>3, <2>1, <2>2 DEF Recorded, Delivered
<1>10. CASE E!MarkFailed
  <2>1. /\ pc = "fail" /\ pc' = "idle" /\ UNCHANGED <<week, essence>>
    BY <1>10 DEF E!MarkFailed, E!End, E!platform
  <2>2. /\ \A w \in E!Weeks : rows'[w].message = rows[w].message
        /\ \A w \in E!Weeks \ {week} : rows'[w].essence = rows[w].essence
        /\ rows'[week].essence \in {"failed", rows[week].essence}
    BY <1>1, <1>10, RowsAfter DEF MessagesKept
  <2>3. week \notin E!Marked
    BY <1>3, <2>1
  <2>4. E!Marked' = E!Marked
    BY <1>1, <2>2, <2>3 DEF E!Marked
  <2>5. Shown' = Shown
    BY <2>2, <2>4 DEF Shown, E!Marked
  <2>. QED  BY <1>3, <2>1, <2>3, <2>4, <2>5 DEF Recorded, Delivered
<1>11. CASE E!MarkSet
  <2>1. /\ pc = "mark" /\ pc' = "previous" /\ UNCHANGED <<week, essence, msg>>
    BY <1>11 DEF E!MarkSet, E!platform
  <2>2. rows[week].known /\ rows[week].message = msg /\ essence = Shown \cup {msg}
    BY <1>3, <2>1 DEF Recorded, Delivered
  <2>3. /\ \A w \in E!Weeks : rows'[w].message = rows[w].message /\ rows'[w].known = rows[w].known
        /\ \A w \in E!Weeks :
             rows'[w].essence = IF w = week THEN "set" ELSE rows[w].essence
    BY <1>11, <2>2, RowsAfter DEF MessagesKept, KnownKept
  <2>4. E!Marked' = E!Marked \cup {week}
    BY <1>1, <2>3 DEF E!Marked
  <2>5. Shown' = Shown \cup {msg}
    BY <1>1, <2>2, <2>3, <2>4 DEF Shown, E!Marked
  <2>. QED  BY <1>1, <2>1, <2>2, <2>3, <2>5
<1>12. CASE E!Previous
  <2>1. /\ pc = "previous" /\ rows' = rows /\ job' = "sent" /\ pc' \in {"idle", "delete"}
        /\ UNCHANGED <<week, essence>> /\ (pc' = "delete" => msg' = msg)
        /\ MessagesKept /\ MarksKept
    BY <1>12 DEF E!Previous, E!End, E!platform, MessagesKept, MarksKept, ShapeInv, Delivered
  <2>2. E!Marked' = E!Marked /\ Shown' = Shown
    BY <2>1, SameMarks
  <2>. QED  BY <1>3, <2>1, <2>2 DEF Recorded, Delivered
<1>13. CASE E!DeleteEssence
  <2>1. /\ pc = "delete" /\ rows' = rows /\ UNCHANGED <<week, job>> /\ job = "sent"
        /\ MessagesKept /\ MarksKept
        /\ \/ /\ pc' = "remove" /\ UNCHANGED <<msg, old>>
              /\ essence' = essence \ {rows[old].message}
           \/ pc' = "idle" /\ essence' = essence
    BY <1>1, <1>2, <1>13 DEF E!DeleteEssence, E!End, E!Works, E!Unanswered, E!Refused,
                             MessagesKept, MarksKept, ShapeInv, Delivered
  <2>2. E!Marked' = E!Marked /\ Shown' = Shown
    BY <2>1, SameMarks
  <2>. QED  BY <1>3, <2>1, <2>2 DEF Recorded, Delivered
<1>14. CASE E!MarkRemoved
  <2>1. /\ pc = "remove" /\ pc' = "idle" /\ job' = "sent" /\ UNCHANGED <<week, essence>>
    BY <1>14 DEF E!MarkRemoved, E!End, E!platform, ShapeInv, Delivered
  <2>2. old \in E!Marked /\ rows[old].message # E!NoMessage
    BY <2>1 DEF ShapeInv
  <2>3. /\ \A w \in E!Weeks : rows'[w].message = rows[w].message
        /\ \A w \in E!Weeks :
             rows'[w].essence = IF w = old THEN "removed" ELSE rows[w].essence
    BY <1>14, RowsAfter DEF MessagesKept
  <2>4. E!Marked' = E!Marked \ {old}
    BY <2>1, <2>3 DEF E!Marked
  <2>5. Shown' = Shown \ {rows[old].message}
    BY <2>2, <2>3, <2>4 DEF Shown, E!Marked, RowInv
  <2>. QED  BY <1>3, <2>1, <2>5 DEF Recorded, Delivered
<1>15. CASE E!Interrupted
  BY <1>1, <1>2, <1>15 DEF E!Interrupted
<1>. QED  BY <1>4, <1>5, <1>6, <1>7, <1>8, <1>9, <1>10, <1>11, <1>12, <1>13, <1>14, <1>15
          DEF E!Next

-----------------------------------------------------------------------------
(* The theorems about the place of honour *)

\* The rows, the place of the delivery, and what the platform shows keep in step
\* (dispatcher.py:439, planner.py:190).
THEOREM HonourInvariance == E!Spec => []HonourInv
<1>1. E!Init => HonourInv
  <2> SUFFICES ASSUME E!Init PROVE HonourInv
    OBVIOUS
  <2>1. MaxWeeks \in Nat \ {0} /\ MaxMessages \in Nat \ {0} /\ 1 \in E!Weeks
    BY EssenceBounds DEF E!EssenceConstants, E!Weeks
  <2>2. /\ week = 1 /\ job = "none" /\ planning = FALSE /\ essence = {} /\ sent = 0
        /\ pc = "idle" /\ msg = E!NoMessage /\ old = E!NoRow
        /\ late = 0 /\ refusals = 0 /\ lost = 0 /\ faults = 0
        /\ rows = [w \in E!Weeks |-> E!Absent]
    BY DEF E!Init
  <2>3. /\ E!Absent \in Report /\ ~ E!Absent.known /\ E!Absent.message = E!NoMessage
        /\ E!Absent.essence = "none"
    BY DEF E!Absent, Report
  <2>4. \A w \in E!Weeks : /\ rows[w].message = E!NoMessage /\ rows[w].essence = "none"
                           /\ ~ rows[w].known
    BY <2>2, <2>3
  <2>5. rows \in [E!Weeks -> Report]
    BY <2>2, <2>3
  <2>6. E!TypeOK
    <3>1. planning \in BOOLEAN /\ msg \in E!Messages \cup {E!NoMessage} /\ week \in E!Weeks
      BY <2>1, <2>2
    <3>2. old \in E!Weeks \cup {E!NoRow}
      BY <2>2
    <3>3. /\ sent \in 0 .. MaxMessages /\ essence \subseteq E!Messages
          /\ {late, refusals, lost, faults} \subseteq Nat
      BY <2>1, <2>2
    <3>4. /\ job = "leased" <=> pc \in {"send", "complete"}
          /\ old # E!NoRow <=> pc \in {"delete", "remove"}
      BY <2>2
    <3>. QED  BY <2>2, <2>5, <3>1, <3>2, <3>3, <3>4 DEF E!TypeOK, Report
  <2>7. ShapeInv /\ RowInv /\ RecordedInv
    BY <2>2, <2>4 DEF ShapeInv, RowInv, RecordedInv, Recorded, Delivered, Honoured, E!NoMessage
  <2>8. E!Marked = {} /\ Shown = {} /\ Held = {}
    BY <2>2, <2>4 DEF E!Marked, Shown, Held
  <2>9. HeldInv
    BY <2>6, <2>8, Rooms, FS_EmptySet DEF HeldInv, RoomsOK
  <2>10. KnownInv
    BY <2>2, <2>8 DEF KnownInv, Recorded, Delivered
  <2>. QED  BY <2>6, <2>7, <2>9, <2>10 DEF HonourInv
<1>2. HonourInv /\ [E!Next]_E!vars => HonourInv'
  BY EssenceTypeStep, ShapeStep, RowStep, RecordedStep, HeldStep, KnownStep DEF HonourInv
<1>. QED  BY <1>1, <1>2, PTL DEF E!Spec

\* Between deliveries the group has one essence of ours and one more for each mishap,
\* unless a row hides the others; and without mishaps the rows tell which
\* (dispatcher.py:439, planner.py:190, publications.py:71).
THEOREM EssenceAlwaysConsistent == E!Spec => []EssenceIsConsistent
<1>1. ASSUME HonourInv, pc = "idle", E!Hiding = {}
      PROVE  Cardinality(essence) <= 1 + refusals + lost + faults + late
  <2>1. Mute = {}
    BY <1>1 DEF Mute, Others, E!Hiding
  <2>2. Cardinality(Held) <= Room
    BY <1>1, <2>1 DEF HonourInv, HeldInv
  <2>3. Room <= 1 + Mishaps /\ Room \in Nat /\ Mishaps \in Nat
    <3>1. /\ Mishaps \in Nat /\ Room = Mishaps + One(Others # {}) + One(Extra)
          /\ One(Others # {}) = (IF Others # {} THEN 1 ELSE 0)
          /\ One(Extra) = (IF Extra THEN 1 ELSE 0)
      BY <1>1, Rooms DEF One, RoomsOK, HonourInv
    <3>2. Extra => Others = {}
      BY <1>1 DEF Extra
    <3>. QED  BY <3>1, <3>2
  <2>4. essence \subseteq Held /\ essence \in SUBSET E!Messages /\ Held \in SUBSET E!Messages
    BY <1>1, HeldAreMessages DEF Held, HonourInv, E!TypeOK, E!Messages, E!NoMessage
  <2>5. /\ Cardinality(essence) <= Cardinality(Held)
        /\ Cardinality(essence) \in Nat /\ Cardinality(Held) \in Nat
    BY <2>4, Counting
  <2>6. Mishaps = refusals + lost + faults + late
    BY DEF Mishaps
  <2>7. 1 + Mishaps = 1 + refusals + lost + faults + late
    BY <1>1, <2>6, EssenceTypes DEF HonourInv
  <2>. QED  BY <2>2, <2>3, <2>5, <2>7
<1>2. HonourInv => E!EssenceIsKnown
  <2> SUFFICES ASSUME HonourInv, pc = "idle", lost + faults + late = 0
               PROVE  essence = {rows[w].message : w \in E!Marked}
    BY DEF E!EssenceIsKnown
  <2>1. E!TypeOK /\ KnownInv
    BY DEF HonourInv
  <2>2. lost \in Nat /\ faults \in Nat /\ late \in Nat
    BY <2>1, EssenceTypes
  <2>3. lost = 0 /\ faults = 0 /\ late = 0
    BY <2>2
  <2>. QED  BY <2>1, <2>3 DEF KnownInv, Shown
<1>3. HonourInv => E!TypeOK
  BY DEF HonourInv
<1>4. HonourInv => E!OneEssence
  BY <1>1 DEF E!OneEssence, E!Cardinality, Cardinality
<1>. QED  BY <1>2, <1>3, <1>4, HonourInvariance, PTL
          DEF EssenceIsConsistent, E!EssenceIsConsistent

\* The honour is taken from a report only when a later one has it (dispatcher.py:449).
THEOREM HonourAlwaysPassesOn == E!Spec => HonourPassesOn
<1> DEFINE Passes == \A m \in essence \ essence' : msg \in essence /\ m < msg
<1>1. HonourInv /\ [E!Next]_E!vars => Passes
  <2> SUFFICES ASSUME HonourInv, [E!Next]_E!vars, NEW m \in essence \ essence'
               PROVE  msg \in essence /\ m < msg
    OBVIOUS
  <2>1. E!DeleteEssence
    BY DEF E!Next, E!vars, E!Enqueue, E!RecordPlanned, E!PlannerDies, E!Expire, E!NextWeek,
           E!Claim, E!Accepted, E!Failed, E!CompleteJob, E!Publish, E!SetEssence, E!MarkFailed,
           E!MarkSet, E!Previous, E!MarkRemoved, E!Interrupted, E!platform
  <2>2. pc = "delete" /\ m = rows[old].message
    BY <2>1 DEF E!DeleteEssence
  <2>. QED  BY <2>2 DEF HonourInv, ShapeInv, RowInv, Honoured, E!Marked
<1>2. HonourInv /\ [E!Next]_E!vars => [Passes]_E!vars
  BY <1>1
<1>. QED  BY <1>2, HonourInvariance, PTL DEF E!Spec, HonourPassesOn, E!HonourPassesOn

-----------------------------------------------------------------------------
(* The parts in the plugin *)

\* What the plugin does is what its parts do, one of them at a time; so what is proved of
\* them, and of the governor in SendGovernorProofs, holds of it (the run checks this
\* specification).
THEOREM PartsOfPlugin == PluginSpec => Spec /\ E!Spec /\ P!Spec
<1>1. PluginInit => Init /\ E!Init /\ P!Init
  BY DEF PluginInit
<1>2. [PluginNext]_all => [Next]_vars
  BY DEF PluginNext, all, vars, Next, Governor, Weekly, Editing
<1>3. [PluginNext]_all => [E!Next]_E!vars
  BY DEF PluginNext, all, honour, E!vars, E!Next, Governor, Weekly, Editing
<1>4. [PluginNext]_all => [P!Next]_P!vars
  BY DEF PluginNext, all, settings, P!vars, P!Next, Governor, Weekly, Editing
<1>. QED  BY <1>1, <1>2, <1>3, <1>4, PTL DEF PluginSpec, Spec, E!Spec, P!Spec
=============================================================================
