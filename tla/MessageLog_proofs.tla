------------------------- MODULE MessageLog_proofs -------------------------
(***************************************************************************)
(* Proofs about MessageLog: the messages of a Tor are listed in the order  *)
(* in which it logged them though they come on two ways, Tor reports what  *)
(* the filter lets through, and the log file is the one of the settings,   *)
(* for any number of Tors and messages and any settings.                   *)
(*                                                                         *)
(* And about StatusEvents, the other tab of the same window: its newest    *)
(* word on Tor is right, circuits are noticed, relays are online once.     *)
(***************************************************************************)
EXTENDS MessageLog, StatusEvents, Lists_proofs

FrameOf == [at : {"auth", "name", "load", "events"}] \cup [at : {"file"}, form : Settings]

TypeOK ==
    /\ tor \in [id : 0 .. MaxTors, runs : BOOLEAN, said : 0 .. MaxMessages]
    /\ tor.runs => tor.id # 0
    /\ link \in {"Down", "Up", "Authed"} /\ wired \subseteq Severities
    /\ stdout \in BOOLEAN /\ pipe \in Seq(Messages) /\ queue \in Seq(Messages)
    /\ stored \in Settings /\ enable \in BOOLEAN /\ file \in Files \cup {None}
    /\ listed \in Seq(Messages) /\ stack \in Seq(FrameOf)
    /\ refused \in BOOLEAN /\ overlap \subseteq 1 .. MaxTors

------------------------------------------------------------------------------
(* Lists of messages *)

\* A list that holds some of another's elements, in their order: f tells where each came from.
Thinned(r, s, f) ==
    /\ f \in [DOMAIN r -> DOMAIN s]
    /\ \A i \in DOMAIN r : r[i] = s[f[i]]
    /\ \A i, j \in DOMAIN r : i < j => f[i] < f[j]
Part(r, s) == \E f : Thinned(r, s, f)

LEMMA WholePart == \A s \in Seq(Messages) : Part(s, s)
<1> SUFFICES ASSUME NEW s \in Seq(Messages) PROVE Part(s, s)
  OBVIOUS
<1>1. Thinned(s, s, [i \in DOMAIN s |-> i])
  BY DEF Thinned
<1> QED BY <1>1 DEF Part

LEMMA PartOfPart ==
    ASSUME NEW s, NEW r, NEW q, Part(r, s), Part(q, r)
    PROVE  Part(q, s)
<1>1. PICK f : Thinned(r, s, f)
  BY DEF Part
<1>2. PICK g : Thinned(q, r, g)
  BY DEF Part
<1>3. Thinned(q, s, [i \in DOMAIN q |-> f[g[i]]])
  BY <1>1, <1>2 DEF Thinned
<1> QED BY <1>3 DEF Part

LEMMA EmptyPart == \A s : Part(<<>>, s)
<1> SUFFICES ASSUME NEW s PROVE Part(<<>>, s)
  OBVIOUS
<1>1. Thinned(<<>>, s, [i \in {} |-> i])
  BY DEF Thinned
<1> QED BY <1>1 DEF Part

\* filter() and setMaximumMessageCount() take messages out of a list.
LEMMA Trimming ==
    ASSUME NEW entries \in Seq(Messages), NEW max \in Nat
    PROVE  /\ CutToSize(entries, max) \in Seq(Messages) /\ Len(CutToSize(entries, max)) <= max
           /\ Len(CutToSize(entries, max)) <= Len(entries) /\ Part(CutToSize(entries, max), entries)
<1>1. CASE Len(entries) <= max
  BY <1>1, WholePart DEF CutToSize
<1>2. CASE ~(Len(entries) <= max)
  <2>1. PICK n : n = Len(entries)
    OBVIOUS
  <2>2. PICK q : q = SubSeq(entries, n - max + 1, n)
    OBVIOUS
  <2>3. CutToSize(entries, max) = q /\ n \in Nat /\ n > max /\ DOMAIN entries = 1 .. n
    BY <1>2, <2>1, <2>2 DEF CutToSize
  <2>4. n - max + 1 \in 1 .. n + 1 /\ n \in n - max + 1 - 1 .. n /\ n - max + 1 \in Int
    BY <2>3
  <2>5. \A i \in n - max + 1 .. n : entries[i] \in Messages
    BY <2>3, ElementOfSeq
  <2>6. /\ q \in Seq(Messages) /\ Len(q) = max /\ DOMAIN q = 1 .. max
        /\ \A i \in 1 .. max : q[i] = entries[n - max + i]
    BY <2>2, <2>3, <2>4, <2>5, SubSeqProperties
  <2>7. Thinned(q, entries, [i \in 1 .. max |-> n - max + i])
    BY <2>3, <2>6 DEF Thinned
  <2> QED BY <2>1, <2>3, <2>6, <2>7 DEF Part
<1> QED BY <1>1, <1>2

LEMMA Filtering ==
    ASSUME NEW entries \in Seq(Messages), NEW filter, NEW max \in Nat
    PROVE  /\ Filtered(entries, filter, max) \in Seq(Messages)
           /\ Len(Filtered(entries, filter, max)) <= max /\ Part(Filtered(entries, filter, max), entries)
<1>1. PICK I : I = {i \in DOMAIN entries : entries[i].sev \in filter}
  OBVIOUS
<1>2. PICK q : q = Kept(entries, I)
  OBVIOUS
<1>3. q \in Seq(Messages) /\ \E f : Picks(entries, I, Len(entries), q, f)
  BY <1>2, KeptIsSubsequence
<1>4. PICK f : Picks(entries, I, Len(entries), q, f)
  BY <1>3
<1>5. Thinned(q, entries, f)
  <2>1. DOMAIN q = 1 .. Len(q) /\ DOMAIN entries = 1 .. Len(entries)
    BY <1>3
  <2> QED BY <1>4, <2>1 DEF Thinned, Picks
<1>6. Part(q, entries) /\ Filtered(entries, filter, max) = CutToSize(q, max)
  BY <1>1, <1>2, <1>5 DEF Part, Filtered, Passing
<1> QED BY <1>3, <1>6, Trimming, PartOfPart

LEMMA MakingRoom ==
    ASSUME TypeOK, Len(listed) <= stored.max
    PROVE  /\ MakeRoom(listed) \in Seq(Messages) /\ Part(MakeRoom(listed), listed)
           /\ Len(MakeRoom(listed)) < stored.max
<1>1. stored.max \in Nat /\ stored.max # 0
  BY LogAssumption DEF LogAssumption, TypeOK, Settings
<1>2. CASE Len(listed) >= stored.max /\ listed # <<>>
  <2>1. PICK q : q = Tail(listed)
    OBVIOUS
  <2>2. PICK n : n = Len(listed)
    OBVIOUS
  <2>3. /\ q \in Seq(Messages) /\ Len(q) = n - 1 /\ DOMAIN q = 1 .. n - 1 /\ DOMAIN listed = 1 .. n
        /\ n \in Nat /\ \A i \in 1 .. n - 1 : q[i] = listed[i + 1]
    BY <1>2, <2>1, <2>2, Dequeued DEF TypeOK
  <2>4. Thinned(q, listed, [i \in 1 .. n - 1 |-> i + 1])
    BY <2>3 DEF Thinned
  <2>5. MakeRoom(listed) = q
    BY <1>2, <2>1 DEF MakeRoom
  <2> QED BY <1>1, <2>2, <2>3, <2>4, <2>5 DEF Part
<1>3. CASE ~(Len(listed) >= stored.max /\ listed # <<>>)
  <2>1. MakeRoom(listed) = listed /\ listed \in Seq(Messages) /\ Len(listed) \in Nat
    BY <1>3 DEF MakeRoom, TypeOK
  <2>2. Len(listed) < stored.max
    <3>1. CASE listed = <<>>
      BY <1>1, <3>1
    <3>2. CASE listed # <<>>
      BY <1>1, <1>3, <2>1, <3>2
    <3> QED BY <3>1, <3>2
  <2> QED BY <2>1, <2>2, WholePart
<1> QED BY <1>2, <1>3

------------------------------------------------------------------------------
(* Order *)

\* m was logged before k, if they are of one Tor and came on one way (o: the Tors that used both).
Precedes(o, m, k) == m.tor = k.tor /\ m.tor \notin o => m.n < k.n
Ordered(o, s) == \A i, j \in DOMAIN s : i < j => Precedes(o, s[i], s[j])
AllBefore(o, s, r) == \A i \in DOMAIN s, j \in DOMAIN r : Precedes(o, s[i], r[j])
\* The Tor t, or one before it, has logged what is in s.
LoggedBy(t, m) == m.tor <= t.id /\ (m.tor = t.id => m.n <= t.said)
Sent(t, s) == \A i \in DOMAIN s : LoggedBy(t, s[i])

LEMMA PartKeeps ==
    ASSUME NEW s \in Seq(Messages), NEW r \in Seq(Messages), Part(r, s), NEW o
    PROVE  /\ Ordered(o, s) => Ordered(o, r)
           /\ \A x : AllBefore(o, s, x) => AllBefore(o, r, x)
           /\ \A t : Sent(t, s) => Sent(t, r)
<1>1. PICK f : Thinned(r, s, f)
  BY DEF Part
<1>2. \A i \in DOMAIN r : f[i] \in DOMAIN s /\ r[i] = s[f[i]]
  BY <1>1 DEF Thinned
<1>3. \A i, j \in DOMAIN r : i < j => f[i] < f[j]
  BY <1>1 DEF Thinned
<1>4. Ordered(o, s) => Ordered(o, r)
  BY <1>2, <1>3 DEF Ordered
<1>5. \A x : AllBefore(o, s, x) => AllBefore(o, r, x)
  BY <1>2 DEF AllBefore
<1>6. \A t : Sent(t, s) => Sent(t, r)
  BY <1>2 DEF Sent
<1> QED BY <1>4, <1>5, <1>6

LEMMA AppendKeeps ==
    ASSUME NEW s \in Seq(Messages), NEW m \in Messages, NEW o
    PROVE  /\ Append(s, m) \in Seq(Messages) /\ Len(Append(s, m)) = Len(s) + 1
           /\ Ordered(o, s) /\ AllBefore(o, s, <<m>>) => Ordered(o, Append(s, m))
           /\ \A x : AllBefore(o, s, x) /\ AllBefore(o, <<m>>, x) => AllBefore(o, Append(s, m), x)
           /\ \A x : AllBefore(o, x, s) /\ AllBefore(o, x, <<m>>) => AllBefore(o, x, Append(s, m))
           /\ \A t : Sent(t, s) /\ LoggedBy(t, m) => Sent(t, Append(s, m))
<1>1. PICK q : q = Append(s, m)
  OBVIOUS
<1>2. PICK n : n = Len(s)
  OBVIOUS
<1>3. /\ q \in Seq(Messages) /\ Len(q) = n + 1 /\ DOMAIN q = 1 .. n + 1 /\ q[n + 1] = m
      /\ DOMAIN s = 1 .. n /\ n \in Nat /\ \A i \in 1 .. n : q[i] = s[i]
  BY <1>1, <1>2, Pushed
<1>4. \A i \in 1 .. n + 1 : i = n + 1 \/ i \in 1 .. n
  BY <1>3
<1>5. DOMAIN <<m>> = 1 .. 1 /\ 1 \in 1 .. 1 /\ <<m>>[1] = m /\ \A i \in 1 .. 1 : i = 1
  OBVIOUS
<1>6. ASSUME Ordered(o, s), AllBefore(o, s, <<m>>) PROVE Ordered(o, q)
  <2> SUFFICES ASSUME NEW i \in 1 .. n + 1, NEW j \in 1 .. n + 1, i < j
               PROVE  Precedes(o, q[i], q[j])
    BY <1>3 DEF Ordered
  <2>1. i \in 1 .. n
    BY <1>3
  <2>2. CASE j \in 1 .. n
    BY <1>3, <1>6, <2>1, <2>2 DEF Ordered
  <2>3. CASE j = n + 1
    BY <1>3, <1>5, <1>6, <2>1, <2>3 DEF AllBefore
  <2> QED BY <1>4, <2>2, <2>3
<1>7. ASSUME NEW x, AllBefore(o, s, x), AllBefore(o, <<m>>, x) PROVE AllBefore(o, q, x)
  <2> SUFFICES ASSUME NEW i \in 1 .. n + 1, NEW j \in DOMAIN x PROVE Precedes(o, q[i], x[j])
    BY <1>3 DEF AllBefore
  <2>1. CASE i \in 1 .. n
    BY <1>3, <1>7, <2>1 DEF AllBefore
  <2>2. CASE i = n + 1
    BY <1>3, <1>5, <1>7, <2>2 DEF AllBefore
  <2> QED BY <1>4, <2>1, <2>2
<1>8. ASSUME NEW x, AllBefore(o, x, s), AllBefore(o, x, <<m>>) PROVE AllBefore(o, x, q)
  <2> SUFFICES ASSUME NEW i \in 1 .. n + 1, NEW j \in DOMAIN x PROVE Precedes(o, x[j], q[i])
    BY <1>3 DEF AllBefore
  <2>1. CASE i \in 1 .. n
    BY <1>3, <1>8, <2>1 DEF AllBefore
  <2>2. CASE i = n + 1
    BY <1>3, <1>5, <1>8, <2>2 DEF AllBefore
  <2> QED BY <1>4, <2>1, <2>2
<1>9. ASSUME NEW t, Sent(t, s), LoggedBy(t, m) PROVE Sent(t, q)
  BY <1>3, <1>4, <1>9 DEF Sent
<1> QED BY <1>1, <1>2, <1>3, <1>6, <1>7, <1>8, <1>9

LEMMA TailKeeps ==
    ASSUME NEW s \in Seq(Messages), s # <<>>, NEW o
    PROVE  /\ Tail(s) \in Seq(Messages) /\ Head(s) \in Messages
           /\ Ordered(o, s) => Ordered(o, Tail(s)) /\ AllBefore(o, <<Head(s)>>, Tail(s))
           /\ \A x : AllBefore(o, x, s) => AllBefore(o, x, Tail(s)) /\ AllBefore(o, x, <<Head(s)>>)
           /\ \A x : AllBefore(o, s, x) => AllBefore(o, <<Head(s)>>, x)
           /\ \A t : Sent(t, s) => Sent(t, Tail(s)) /\ LoggedBy(t, Head(s))
<1>1. PICK q : q = Tail(s)
  OBVIOUS
<1>2. PICK n : n = Len(s)
  OBVIOUS
<1>3. PICK h : h = Head(s)
  OBVIOUS
<1>4. /\ q \in Seq(Messages) /\ DOMAIN q = 1 .. n - 1 /\ DOMAIN s = 1 .. n /\ h = s[1] /\ h \in Messages
      /\ n \in Nat /\ 1 <= n /\ \A i \in 1 .. n - 1 : q[i] = s[i + 1]
  BY <1>1, <1>2, <1>3, Dequeued
<1>5. 1 \in 1 .. n /\ \A i \in 1 .. n - 1 : i + 1 \in 1 .. n /\ 1 < i + 1
  BY <1>4
<1>6. DOMAIN <<h>> = 1 .. 1 /\ <<h>>[1] = h /\ \A i \in 1 .. 1 : i = 1
  OBVIOUS
<1>7. ASSUME Ordered(o, s) PROVE Ordered(o, q) /\ AllBefore(o, <<h>>, q)
  <2>1. ASSUME NEW i \in 1 .. n - 1, NEW j \in 1 .. n - 1, i < j PROVE Precedes(o, q[i], q[j])
    <3>1. i + 1 < j + 1
      BY <1>4, <2>1
    <3> QED BY <1>4, <1>5, <1>7, <3>1 DEF Ordered
  <2>2. ASSUME NEW i \in 1 .. n - 1 PROVE Precedes(o, h, q[i])
    BY <1>4, <1>5, <1>7 DEF Ordered
  <2> QED BY <1>4, <1>6, <2>1, <2>2 DEF Ordered, AllBefore
<1>8. ASSUME NEW x, AllBefore(o, x, s) PROVE AllBefore(o, x, q) /\ AllBefore(o, x, <<h>>)
  BY <1>4, <1>5, <1>6, <1>8 DEF AllBefore
<1>9. ASSUME NEW x, AllBefore(o, s, x) PROVE AllBefore(o, <<h>>, x)
  BY <1>4, <1>5, <1>6, <1>9 DEF AllBefore
<1>10. ASSUME NEW t, Sent(t, s) PROVE Sent(t, q) /\ LoggedBy(t, h)
  BY <1>4, <1>5, <1>10 DEF Sent
<1> QED BY <1>1, <1>3, <1>4, <1>7, <1>8, <1>9, <1>10

LEMMA OverlapGrows ==
    ASSUME NEW o, NEW p, o \subseteq p
    PROVE  /\ \A s : Ordered(o, s) => Ordered(p, s)
           /\ \A s, r : AllBefore(o, s, r) => AllBefore(p, s, r)
BY DEF Ordered, AllBefore, Precedes

------------------------------------------------------------------------------
(* What a change of the settings does, whether or not a message box comes in between *)

LEMMA StackIs ==
    ASSUME TypeOK
    PROVE  /\ \A f \in FrameOf : /\ Append(stack, f) \in Seq(FrameOf)
                                 /\ AuthWaits => \E i \in DOMAIN Append(stack, f) : Append(stack, f)[i].at = "auth"
                                 /\ f.at = "auth" => \E i \in DOMAIN Append(stack, f) : Append(stack, f)[i].at = "auth"
           /\ stack # <<>> =>
                 /\ Beneath \in Seq(FrameOf) /\ Top \in FrameOf
                 /\ AuthWaits /\ Top.at # "auth" => \E i \in DOMAIN Beneath : Beneath[i].at = "auth"
<1>1. PICK n : n = Len(stack)
  OBVIOUS
<1>2. n \in Nat /\ DOMAIN stack = 1 .. n /\ stack \in Seq(FrameOf)
  BY <1>1 DEF TypeOK
<1>3. ASSUME NEW f \in FrameOf
      PROVE  /\ Append(stack, f) \in Seq(FrameOf)
             /\ AuthWaits => \E i \in DOMAIN Append(stack, f) : Append(stack, f)[i].at = "auth"
             /\ f.at = "auth" => \E i \in DOMAIN Append(stack, f) : Append(stack, f)[i].at = "auth"
  <2>1. PICK q : q = Append(stack, f)
    OBVIOUS
  <2>2. /\ q \in Seq(FrameOf) /\ DOMAIN q = 1 .. n + 1 /\ q[n + 1] = f
        /\ \A i \in 1 .. n : q[i] = stack[i]
    BY <1>1, <1>2, <2>1, Pushed
  <2>3. n + 1 \in 1 .. n + 1 /\ 1 .. n \subseteq 1 .. n + 1
    BY <1>2
  <2> QED BY <1>2, <2>1, <2>2, <2>3 DEF AuthWaits
<1>4. ASSUME stack # <<>>
      PROVE  /\ Beneath \in Seq(FrameOf) /\ Top \in FrameOf
             /\ AuthWaits /\ Top.at # "auth" => \E i \in DOMAIN Beneath : Beneath[i].at = "auth"
  <2>1. PICK q : q = Beneath
    OBVIOUS
  <2>2. /\ q \in Seq(FrameOf) /\ Len(q) = n - 1 /\ 1 <= n /\ Top = stack[n] /\ Top \in FrameOf
        /\ \A i \in 1 .. n - 1 : q[i] = stack[i]
    BY <1>1, <1>2, <1>4, <2>1, Popped DEF Beneath, Front, Top, Last
  <2>3. DOMAIN q = 1 .. n - 1
    BY <1>2, <2>2
  <2>4. \A i \in 1 .. n : i = n \/ i \in 1 .. n - 1
    BY <1>2
  <2> QED BY <1>2, <2>1, <2>2, <2>3, <2>4 DEF AuthWaits
<1> QED BY <1>3, <1>4

LEMMA FramesAre ==
    /\ \A at \in {"auth", "name", "load", "events"} : Frame(at) \in FrameOf /\ Frame(at).at = at
    /\ \A form \in Settings : FileBox(form) \in FrameOf
    /\ \A f \in FrameOf : f.at = "file" => f.form \in Settings
BY DEF Frame, FileBox, FrameOf

\* Tor is told of the filter, or refuses, or is not there.
Registering(filter) ==
    \/ /\ link = "Authed" /\ UNCHANGED link /\ wired' = filter /\ refused' = FALSE
       /\ overlap' = IF stdout THEN overlap \cup {tor.id} ELSE overlap
    \/ link = "Down" /\ UNCHANGED <<link, wired, refused, overlap>>
    \/ /\ link # "Down" /\ UNCHANGED <<wired, overlap>> /\ refused' = (link = "Authed")
       /\ link' = (IF link = "Authed" THEN link ELSE "Down")

LEMMA RegisterIs ==
    ASSUME TypeOK, NEW filter, NEW max \in Nat, NEW entries \in Seq(Messages), Len(entries) <= max,
           NEW rest, Register(filter, max, entries, rest)
    PROVE  /\ Registering(filter)
           /\ listed' \in Seq(Messages) /\ Part(listed', entries) /\ Len(listed') <= max
           /\ stack' = rest \/ stack' = Append(rest, Frame("events"))
<1>1. CASE /\ \/ Accepted(filter) /\ overlap' = IF stdout THEN overlap \cup {tor.id} ELSE overlap
              \/ link = "Down" /\ UNCHANGED <<link, wired, history>>
           /\ listed' = Filtered(entries, filter, max) /\ stack' = rest
  <2>1. Registering(filter)
    BY <1>1 DEF Registering, Accepted, Asked, history
  <2> QED BY <1>1, <2>1, Filtering
<1>2. CASE /\ Refused /\ UNCHANGED overlap
           /\ listed' = entries /\ stack' = Append(rest, Frame("events"))
  <2>1. Registering(filter)
    BY <1>2 DEF Registering, Refused
  <2> QED BY <1>2, <2>1, WholePart
<1> QED BY <1>1, <1>2 DEF Register

\* The file that is open is that of the settings, or none.
FileOf(s, f) == f \in IF s.enable THEN {s.file, None} ELSE {None}

\* A form that is saved: its file could be opened, or the old one stays.
LEMMA StoreIs ==
    ASSUME TypeOK, NEW form \in Settings, stored' = StoreForm(form)
    PROVE  /\ stored' \in Settings /\ stored'.filter = form.filter /\ stored'.max = form.max
           /\ Succeeds(form) => FileOf(stored', file')
           /\ FileOf(stored, file') => FileOf(stored', file')
<1>1. stored \in Settings
  BY DEF TypeOK
<1>2. CASE Succeeds(form)
  <2>1. stored' = form
    BY <1>2 DEF StoreForm
  <2>2. file' \in IF form.enable THEN {form.file, None} ELSE {None}
    BY <1>2 DEF Succeeds
  <2> QED BY <2>1, <2>2 DEF FileOf
<1>3. CASE ~Succeeds(form)
  <2>1. stored' = [form EXCEPT !.enable = stored.enable, !.file = stored.file]
    BY <1>3 DEF StoreForm
  <2>2. /\ stored' \in Settings /\ stored'.filter = form.filter /\ stored'.max = form.max
        /\ stored'.enable = stored.enable /\ stored'.file = stored.file
    BY <1>1, <2>1 DEF Settings
  <2> QED BY <1>3, <2>2 DEF FileOf
<1> QED BY <1>2, <1>3

LEMMA OpensIs ==
    ASSUME TypeOK, NEW form \in Settings, file' \in Rotated(form)
    PROVE  /\ file' \in Files \cup {None}
           /\ Succeeds(form) \/ (form.enable /\ file' = file)
BY DEF Rotated, Opens, OldFile, Succeeds, TypeOK, Settings

\* All that a change of the settings does.
Changes ==
    /\ UNCHANGED <<tor, channels>> /\ stored' \in Settings
    /\ listed' \in Seq(Messages) /\ Part(listed', listed) /\ Len(listed') <= stored'.max
    /\ enable' \in BOOLEAN /\ file' \in Files \cup {None} /\ FileOf(stored', file')
    /\ stack' \in Seq(FrameOf) /\ (AuthWaits => AuthWaits')
    /\ Registering(stored'.filter) \/ UNCHANGED <<stored, link, wired, refused, overlap>>

\* The list after Register, when it was trimmed before that or is as it was.
LEMMA RegisterChanges ==
    ASSUME TypeOK, NEW max \in Nat, NEW filter, NEW entries,
           entries = CutToSize(listed, max) \/ (entries = listed /\ Len(listed) <= max),
           NEW rest \in Seq(FrameOf), Append(rest, Frame("events")) \in Seq(FrameOf),
           Register(filter, max, entries, rest)
    PROVE  /\ Registering(filter) /\ listed' \in Seq(Messages) /\ Part(listed', listed)
           /\ Len(listed') <= max /\ stack' \in Seq(FrameOf)
           /\ stack' = rest \/ stack' = Append(rest, Frame("events"))
<1>1. entries \in Seq(Messages) /\ Len(entries) <= max /\ Part(entries, listed)
  BY Trimming, WholePart DEF TypeOK
<1>2. /\ Registering(filter) /\ listed' \in Seq(Messages) /\ Part(listed', entries)
      /\ Len(listed') <= max /\ (stack' = rest \/ stack' = Append(rest, Frame("events")))
  BY <1>1, RegisterIs
<1> QED BY <1>1, <1>2, PartOfPart

LEMMA ChangesAre ==
    ASSUME TypeOK, Len(listed) <= stored.max, FileOf(stored, file),
           (\E form \in Settings : Save(form)) \/ Cancel \/ BoxAnswered
    PROVE  Changes
<1>1. /\ stored \in Settings /\ listed \in Seq(Messages) /\ stack \in Seq(FrameOf)
      /\ enable \in BOOLEAN /\ file \in Files \cup {None}
      /\ \A s \in Settings : s.max \in Nat /\ s.enable \in BOOLEAN
  BY LogAssumption DEF TypeOK, Settings, LogAssumption
<1>2. Part(listed, listed)
  BY <1>1, WholePart
<1>3. \A f \in FrameOf : Append(stack, f) \in Seq(FrameOf)
  BY StackIs
<1>4. \A f \in FrameOf : stack' = Append(stack, f) => (AuthWaits => AuthWaits')
  <2> SUFFICES ASSUME NEW f \in FrameOf, stack' = Append(stack, f), AuthWaits PROVE AuthWaits'
    OBVIOUS
  <2> QED BY StackIs DEF AuthWaits
<1>5. UNCHANGED stack => (AuthWaits => AuthWaits')
  BY DEF AuthWaits
<1>6. /\ Frame("name") \in FrameOf /\ Frame("load") \in FrameOf /\ Frame("events") \in FrameOf
      /\ Frame("events").at = "events"
  BY FramesAre
<1>7. ASSUME NEW form \in Settings, Save(form) PROVE Changes
  <2>1. UNCHANGED <<tor, channels>> /\ enable' \in BOOLEAN
    BY <1>1, <1>7 DEF Save
  <2>2. CASE /\ stack' = Append(stack, Frame("name"))
             /\ UNCHANGED <<file, stored, link, wired, listed, history>>
    BY <1>1, <1>2, <1>3, <1>4, <1>6, <2>1, <2>2 DEF Changes, history
  <2>3. CASE file' \in Rotated(form) /\ Succeeds(form) /\ SaveRest(form, stack)
    <3>1. /\ stored' \in Settings /\ stored'.filter = form.filter /\ stored'.max = form.max
          /\ FileOf(stored', file')
      BY <2>3, StoreIs DEF SaveRest
    <3>2. Register(form.filter, form.max, CutToSize(listed, form.max), stack)
      BY <2>3 DEF SaveRest
    <3>3. /\ Registering(form.filter) /\ listed' \in Seq(Messages) /\ Part(listed', listed)
          /\ Len(listed') <= form.max /\ stack' \in Seq(FrameOf)
          /\ stack' = stack \/ stack' = Append(stack, Frame("events"))
      BY <1>1, <1>3, <1>6, <3>2, RegisterChanges
    <3>4. AuthWaits => AuthWaits'
      BY <1>4, <1>5, <1>6, <3>3
    <3>5. file' \in Files \cup {None}
      BY <2>3, OpensIs
    <3> QED BY <2>1, <3>1, <3>3, <3>4, <3>5 DEF Changes
  <2>4. CASE /\ file' \in Rotated(form) /\ ~Succeeds(form)
             /\ stack' = Append(stack, FileBox(form))
             /\ UNCHANGED <<stored, link, wired, listed, history>>
    <3>1. FileBox(form) \in FrameOf
      BY FramesAre
    <3>2. file' = file
      BY <2>4, OpensIs
    <3> QED BY <1>1, <1>2, <1>3, <1>4, <2>1, <2>4, <3>1, <3>2 DEF Changes, history
  <2> QED BY <1>7, <2>2, <2>3, <2>4 DEF Save
<1>8. CASE Cancel
  <2>1. UNCHANGED <<tor, channels, stored>> /\ enable' \in BOOLEAN /\ file' \in Rotated(stored)
    BY <1>1, <1>8 DEF Cancel
  <2>2. file' \in Files \cup {None} /\ FileOf(stored', file')
    <3>1. Succeeds(stored) => FileOf(stored, file')
      BY DEF Succeeds, FileOf
    <3>2. file' \in Files \cup {None} /\ (Succeeds(stored) \/ file' = file)
      BY <1>1, <2>1, OpensIs
    <3> QED BY <2>1, <3>1, <3>2
  <2>3. CASE Register(stored.filter, stored.max, CutToSize(listed, stored.max), stack)
    <3>1. /\ Registering(stored.filter) /\ listed' \in Seq(Messages) /\ Part(listed', listed)
          /\ Len(listed') <= stored.max /\ stack' \in Seq(FrameOf)
          /\ stack' = stack \/ stack' = Append(stack, Frame("events"))
      BY <1>1, <1>3, <1>6, <2>3, RegisterChanges
    <3>2. AuthWaits => AuthWaits'
      BY <1>4, <1>5, <1>6, <3>1
    <3> QED BY <1>1, <2>1, <2>2, <3>1, <3>2 DEF Changes
  <2>4. CASE /\ stack' = Append(stack, Frame("load"))
             /\ listed' = CutToSize(listed, stored.max)
             /\ UNCHANGED <<link, wired, history>>
    <3>1. listed' \in Seq(Messages) /\ Part(listed', listed) /\ Len(listed') <= stored.max
      BY <1>1, <2>4, Trimming
    <3> QED BY <1>1, <1>3, <1>4, <1>6, <2>1, <2>2, <2>4, <3>1 DEF Changes, history
  <2> QED BY <1>8, <2>3, <2>4 DEF Cancel
<1>9. CASE BoxAnswered
  <2>1. /\ stack # <<>> /\ Top.at \in Boxes /\ UNCHANGED <<tor, channels, enable, file>>
    BY <1>9 DEF BoxAnswered, logging
  <2>2. Beneath \in Seq(FrameOf) /\ Top \in FrameOf /\ Top.at # "auth"
    BY <2>1, StackIs DEF Boxes
  <2>3. AuthWaits => \E i \in DOMAIN Beneath : Beneath[i].at = "auth"
    BY <2>1, <2>2, StackIs
  <2>4. Append(Beneath, Frame("events")) \in Seq(FrameOf)
    BY <1>6, <2>2, Pushed
  <2>5. stack' = Beneath \/ stack' = Append(Beneath, Frame("events")) => (AuthWaits => AuthWaits')
    <3> SUFFICES ASSUME stack' = Beneath \/ stack' = Append(Beneath, Frame("events")), AuthWaits
                 PROVE  AuthWaits'
      OBVIOUS
    <3>1. PICK b : b = Beneath
      OBVIOUS
    <3>2. PICK i \in DOMAIN b : b[i].at = "auth"
      BY <2>3, <3>1
    <3>3. i \in DOMAIN Append(b, Frame("events")) /\ Append(b, Frame("events"))[i] = b[i]
      BY <1>6, <2>2, <3>1, Pushed
    <3> QED BY <3>1, <3>2, <3>3 DEF AuthWaits
  <2>6. CASE stack' = Beneath /\ UNCHANGED <<stored, link, wired, listed, history>>
    BY <1>1, <1>2, <2>1, <2>2, <2>5, <2>6 DEF Changes, history
  <2>7. CASE Top.at = "file" /\ SaveRest(Top.form, Beneath)
    <3>1. PICK form \in Settings : SaveRest(form, Beneath)
      BY <2>2, <2>7, FramesAre
    <3>2. /\ stored' \in Settings /\ stored'.filter = form.filter /\ stored'.max = form.max
          /\ FileOf(stored', file')
      BY <2>1, <3>1, StoreIs DEF SaveRest
    <3>3. Register(form.filter, form.max, CutToSize(listed, form.max), Beneath)
      BY <3>1 DEF SaveRest
    <3>4. /\ Registering(form.filter) /\ listed' \in Seq(Messages) /\ Part(listed', listed)
          /\ Len(listed') <= form.max /\ stack' \in Seq(FrameOf)
          /\ stack' = Beneath \/ stack' = Append(Beneath, Frame("events"))
      BY <1>1, <2>2, <2>4, <3>3, RegisterChanges
    <3> QED BY <1>1, <2>1, <2>5, <3>2, <3>4 DEF Changes
  <2>8. CASE UNCHANGED stored /\ Register(stored.filter, stored.max, listed, Beneath)
    <3>1. /\ Registering(stored.filter) /\ listed' \in Seq(Messages) /\ Part(listed', listed)
          /\ Len(listed') <= stored.max /\ stack' \in Seq(FrameOf)
          /\ stack' = Beneath \/ stack' = Append(Beneath, Frame("events"))
      BY <1>1, <2>2, <2>4, <2>8, RegisterChanges
    <3> QED BY <1>1, <2>1, <2>5, <2>8, <3>1 DEF Changes
  <2>9. CASE /\ stack' = Beneath /\ listed' = Filtered(listed, stored.filter, stored.max)
             /\ UNCHANGED <<stored, link, wired, history>>
    <3>1. listed' \in Seq(Messages) /\ Part(listed', listed) /\ Len(listed') <= stored.max
      BY <1>1, <2>9, Filtering
    <3> QED BY <1>1, <2>1, <2>2, <2>5, <2>9, <3>1 DEF Changes, history
  <2> QED BY <1>9, <2>6, <2>7, <2>8, <2>9 DEF BoxAnswered
<1> QED BY <1>7, <1>8, <1>9

------------------------------------------------------------------------------
(* Types, the length of the list and the file *)

\* Only a Tor that runs is connected to, and only one that is reports events.
Linked == (link # "Down" => tor.runs) /\ (link # "Authed" => wired = {})
Fits == Len(listed) <= stored.max
Base == TypeOK /\ Linked /\ Fits /\ LogsAsStored

LEMMA LogIs ==
    ASSUME TypeOK, Fits, NEW m \in Messages, Log(m)
    PROVE  /\ listed' \in Seq(Messages) /\ Len(listed') <= stored.max
           /\ \E r \in Seq(Messages) : Part(r, listed) /\ (listed' = r \/ listed' = Append(r, m))
<1>1. CASE m.sev \in stored.filter
  <2>1. PICK r : r = MakeRoom(listed)
    OBVIOUS
  <2>2. r \in Seq(Messages) /\ Part(r, listed) /\ Len(r) < stored.max /\ stored.max \in Nat
    BY <2>1, MakingRoom, LogAssumption DEF Fits, TypeOK, Settings, LogAssumption
  <2>3. listed' = Append(r, m)
    BY <1>1, <2>1 DEF Log
  <2>4. Append(r, m) \in Seq(Messages) /\ Len(Append(r, m)) = Len(r) + 1 /\ Len(r) \in Nat
    BY <2>2, Pushed
  <2> QED BY <2>2, <2>3, <2>4
<1>2. CASE m.sev \notin stored.filter
  BY <1>2, WholePart DEF Log, TypeOK, Fits
<1> QED BY <1>1, <1>2

LEMMA RegisteringTypes ==
    ASSUME TypeOK, Linked, NEW filter \in Filters, Registering(filter)
    PROVE  /\ link' \in {"Down", "Up", "Authed"} /\ wired' \subseteq Severities
           /\ refused' \in BOOLEAN /\ overlap' \subseteq 1 .. MaxTors
           /\ (link' # "Down" => tor.runs) /\ (link' # "Authed" => wired' = {})
<1>1. filter \subseteq Severities
  BY LogAssumption DEF LogAssumption
<1>2. tor.runs => tor.id \in 1 .. MaxTors
  BY LogAssumption DEF TypeOK, LogAssumption
<1> QED BY <1>1, <1>2 DEF Registering, TypeOK, Linked

\* The head of a channel.
LEMMA Taking ==
    ASSUME NEW s \in Seq(Messages), s # <<>>
    PROVE  Head(s) \in Messages /\ Tail(s) \in Seq(Messages)
BY Dequeued

LEMMA InitBase == Init => Base
<1> SUFFICES ASSUME Init PROVE Base
  OBVIOUS
<1>1. MaxTors \in Nat /\ MaxMessages \in Nat
  BY LogAssumption DEF LogAssumption
<1>2. tor \in [id : 0 .. MaxTors, runs : BOOLEAN, said : 0 .. MaxMessages] /\ ~tor.runs
  BY <1>1 DEF Init
<1>3. /\ stored \in Settings /\ (stored.enable => stored.file # None) /\ stored.enable \in BOOLEAN
      /\ stored.file \in Files \cup {None} /\ stored.max \in Nat
  BY LogAssumption DEF Init, Settings, LogAssumption
<1>4. enable \in BOOLEAN /\ file \in Files \cup {None} /\ LogsAsStored
  BY <1>3 DEF Init, Loaded, Opens, OldFile, LogsAsStored
<1>5. /\ pipe = <<>> /\ queue = <<>> /\ listed = <<>> /\ stack = <<>> /\ link = "Down" /\ wired = {}
      /\ stdout = FALSE /\ refused = FALSE /\ overlap = {}
  BY DEF Init
<1> HIDE DEF Init
<1>6. TypeOK
  <2>1. /\ pipe \in Seq(Messages) /\ queue \in Seq(Messages) /\ listed \in Seq(Messages)
        /\ stack \in Seq(FrameOf)
    BY <1>5
  <2> QED BY <1>2, <1>3, <1>4, <1>5, <2>1 DEF TypeOK
<1> QED BY <1>2, <1>3, <1>4, <1>5, <1>6 DEF Base, Linked, Fits

LEMMA StepBase == Base /\ [Next]_vars => Base'
<1> SUFFICES ASSUME Base, [Next]_vars PROVE Base'
  OBVIOUS
<1>1. TypeOK /\ Linked /\ Fits /\ LogsAsStored
  BY DEF Base
<1>2. MaxTors \in Nat /\ MaxMessages \in Nat
  BY LogAssumption DEF LogAssumption
<1>3. stored \in Settings /\ stored.filter \in Filters /\ stored.filter \subseteq Severities
      /\ stored.max \in Nat
  BY <1>1, LogAssumption DEF TypeOK, Settings, LogAssumption
<1>4. ASSUME UNCHANGED <<stored, file, listed>> PROVE Fits' /\ LogsAsStored'
  BY <1>1, <1>4 DEF Fits, LogsAsStored
<1>5. CASE TorStarts
  <2>1. tor' = [id |-> tor.id + 1, runs |-> TRUE, said |-> 0] /\ tor.id < MaxTors
    BY <1>5 DEF TorStarts
  <2>2. tor' \in [id : 0 .. MaxTors, runs : BOOLEAN, said : 0 .. MaxMessages] /\ tor'.id # 0
        /\ tor'.runs
    BY <1>1, <1>2, <2>1 DEF TypeOK
  <2>3. TypeOK' /\ Linked'
    BY <1>1, <1>5, <2>2 DEF TorStarts, TypeOK, Linked, logging, history
  <2> QED BY <1>4, <1>5, <2>3 DEF TorStarts, logging, Base
<1>6. CASE TorExits
  <2>1. tor' \in [id : 0 .. MaxTors, runs : BOOLEAN, said : 0 .. MaxMessages] /\ ~tor'.runs
    BY <1>1, <1>6 DEF TorExits, TypeOK
  <2>2. TypeOK' /\ Linked'
    BY <1>1, <1>6, <2>1 DEF TorExits, TypeOK, Linked, logging, channels
  <2> QED BY <1>4, <1>6, <2>2 DEF TorExits, logging, Base
<1>7. ASSUME NEW s \in Severities, TorLogs(s) PROVE Base'
  <2>1. PICK m : m = [tor |-> tor.id, n |-> tor.said + 1, sev |-> s]
    OBVIOUS
  <2>2. tor.id \in 1 .. MaxTors /\ tor.said + 1 \in 1 .. MaxMessages /\ tor.runs
    BY <1>1, <1>2, <1>7 DEF TorLogs, TypeOK
  <2>3. m \in Messages
    BY <2>1, <2>2 DEF Messages
  <2>4. tor' \in [id : 0 .. MaxTors, runs : BOOLEAN, said : 0 .. MaxMessages]
        /\ tor'.id # 0 /\ tor'.runs
    <3>1. tor' = [tor EXCEPT !.said = tor.said + 1] /\ tor.said + 1 \in 0 .. MaxMessages
      BY <1>2, <1>7, <2>2 DEF TorLogs
    <3> QED BY <1>1, <2>2, <3>1 DEF TypeOK
  <2>5. pipe' \in Seq(Messages) /\ queue' \in Seq(Messages)
    BY <1>1, <1>7, <2>1, <2>3, Pushed DEF TorLogs, TypeOK
  <2>6. TypeOK' /\ Linked'
    BY <1>1, <1>7, <2>4, <2>5 DEF TorLogs, TypeOK, Linked, logging, history
  <2> QED BY <1>4, <1>7, <2>6 DEF TorLogs, logging, Base
<1>8. CASE LinkGoesUp \/ LinkGoesDown
  <2>1. TypeOK' /\ Linked'
    BY <1>1, <1>8 DEF LinkGoesUp, LinkGoesDown, TypeOK, Linked, channels, logging, history
  <2> QED BY <1>4, <1>8, <2>1 DEF LinkGoesUp, LinkGoesDown, logging, Base
<1>9. CASE ReadPipe \/ HandleEvent
  <2>1. PICK m \in Messages : Log(m)
    BY <1>1, <1>9, Taking DEF ReadPipe, HandleEvent, TypeOK
  <2>2. listed' \in Seq(Messages) /\ Len(listed') <= stored.max
    BY <1>1, <2>1, LogIs
  <2>3. pipe' \in Seq(Messages) /\ queue' \in Seq(Messages)
    BY <1>1, <1>9, Taking DEF ReadPipe, HandleEvent, TypeOK
  <2>4. TypeOK' /\ Linked'
    BY <1>1, <1>9, <2>2, <2>3 DEF ReadPipe, HandleEvent, TypeOK, Linked, torside, logging, history
  <2>5. Fits' /\ LogsAsStored'
    BY <1>1, <1>9, <2>2 DEF ReadPipe, HandleEvent, Fits, LogsAsStored, logging
  <2> QED BY <2>4, <2>5 DEF Base
<1>10. CASE ClearMessages
  <2>1. listed' = <<>> /\ Len(listed') = 0
    BY <1>10 DEF ClearMessages
  <2>2. TypeOK' /\ Linked'
    BY <1>1, <1>10, <2>1 DEF ClearMessages, TypeOK, Linked, torside, channels, logging, history
  <2>3. Fits' /\ LogsAsStored'
    BY <1>1, <1>3, <1>10, <2>1 DEF ClearMessages, Fits, LogsAsStored, logging
  <2> QED BY <2>2, <2>3 DEF Base
<1>11. CASE (\E form \in Settings : Save(form)) \/ Cancel \/ BoxAnswered
  <2>1. Changes
    BY <1>1, <1>11, ChangesAre DEF Fits, LogsAsStored, FileOf
  <2>2. stored'.filter \in Filters
    BY <2>1 DEF Changes, Settings
  <2>3. /\ link' \in {"Down", "Up", "Authed"} /\ wired' \subseteq Severities
        /\ refused' \in BOOLEAN /\ overlap' \subseteq 1 .. MaxTors
        /\ (link' # "Down" => tor.runs) /\ (link' # "Authed" => wired' = {})
    BY <1>1, <2>1, <2>2, RegisteringTypes DEF Changes, TypeOK, Linked
  <2>4. TypeOK' /\ Linked'
    BY <1>1, <2>1, <2>3 DEF Changes, channels, TypeOK, Linked
  <2> QED BY <2>1, <2>4 DEF Changes, Base, Fits, LogsAsStored, FileOf
<1>12. CASE Authenticate
  <2>1. stack' \in Seq(FrameOf)
    BY <1>1, <1>12, StackIs, FramesAre DEF Authenticate
  <2>2. TypeOK' /\ Linked'
    BY <1>1, <1>12, <2>1 DEF Authenticate, TypeOK, Linked, channels, logging, history
  <2> QED BY <1>4, <1>12, <2>2 DEF Authenticate, logging, Base
<1>13. CASE RegisterAll
  <2>1. stack' \in Seq(FrameOf)
    BY <1>1, <1>13, StackIs DEF RegisterAll
  <2>2. /\ link' \in {"Down", "Up", "Authed"} /\ wired' \subseteq Severities /\ refused' \in BOOLEAN
        /\ stdout' \in BOOLEAN /\ pipe' \in Seq(Messages)
        /\ (link' # "Down" => tor.runs) /\ (link' # "Authed" => wired' = {})
    <3>1. CASE Accepted(stored.filter) /\ CloseStdout
      <4>1. pipe' \in Seq(Messages)
        BY <3>1 DEF CloseStdout
      <4> QED BY <1>1, <1>3, <3>1, <4>1 DEF Accepted, Asked, CloseStdout, TypeOK, Linked
    <3>2. CASE Refused /\ LeaveStdout
      BY <1>1, <3>2 DEF Refused, LeaveStdout, TypeOK, Linked
    <3>3. CASE link = "Down" /\ UNCHANGED <<link, wired, refused, stdout, pipe>>
      BY <1>1, <3>3 DEF TypeOK, Linked
    <3> QED BY <1>13, <3>1, <3>2, <3>3 DEF RegisterAll
  <2>3. TypeOK' /\ Linked'
    BY <1>1, <1>13, <2>1, <2>2 DEF RegisterAll, TypeOK, Linked, logging
  <2> QED BY <1>4, <1>13, <2>3 DEF RegisterAll, logging, Base
<1>14. CASE VidaliaRestarts
  <2>1. tor' \in [id : 0 .. MaxTors, runs : BOOLEAN, said : 0 .. MaxMessages] /\ ~tor'.runs
    BY <1>1, <1>14 DEF VidaliaRestarts, TypeOK
  <2>2. listed' = <<>> /\ Len(listed') = 0 /\ stack' = <<>> /\ pipe' = <<>> /\ queue' = <<>>
    BY <1>14 DEF VidaliaRestarts
  <2>3. enable' \in BOOLEAN /\ file' \in Files \cup {None} /\ LogsAsStored'
    BY <1>3, <1>14 DEF VidaliaRestarts, Opens, OldFile, Settings, LogsAsStored
  <2>4. TypeOK' /\ Linked'
    <3>1. /\ listed' \in Seq(Messages) /\ stack' \in Seq(FrameOf) /\ pipe' \in Seq(Messages)
          /\ queue' \in Seq(Messages)
      BY <2>2
    <3>2. /\ link' = "Down" /\ wired' = {} /\ refused' = FALSE /\ stdout' = FALSE
          /\ enable' = stored.enable /\ UNCHANGED <<stored, overlap>>
      BY <1>14 DEF VidaliaRestarts
    <3> QED BY <1>1, <2>1, <2>3, <3>1, <3>2 DEF TypeOK, Linked
  <2> QED BY <1>3, <1>14, <2>2, <2>3, <2>4 DEF VidaliaRestarts, Base, Fits
<1>15. CASE UNCHANGED vars
  <2>1. TypeOK' /\ Linked'
    BY <1>1, <1>15 DEF vars, torside, channels, logging, history, TypeOK, Linked
  <2> QED BY <1>4, <1>15, <2>1 DEF vars, logging, Base
<1> QED BY <1>5, <1>6, <1>7, <1>8, <1>9, <1>10, <1>11, <1>12, <1>13, <1>14, <1>15 DEF Next, TorStep

\* The variables have their types.
THEOREM LogTypeCorrect == Spec => []TypeOK
<1>1. Base => TypeOK
  BY DEF Base
<1> QED BY <1>1, InitBase, StepBase, PTL DEF Spec

\* Messages are written to the file of the settings or to none, also when the file that a
\* user asks for cannot be opened, and while the message box says so.
THEOREM LogFileAsStored == Spec => []LogsAsStored
<1>1. Base => LogsAsStored
  BY DEF Base
<1> QED BY <1>1, InitBase, StepBase, PTL DEF Spec

------------------------------------------------------------------------------
(* What Tor reports *)

LEMMA StepRegisters == Base /\ RegisteredAsFiltered /\ [Next]_vars => RegisteredAsFiltered'
<1> SUFFICES ASSUME Base, RegisteredAsFiltered, [Next]_vars PROVE RegisteredAsFiltered'
  OBVIOUS
<1>1. TypeOK /\ Linked /\ Fits /\ LogsAsStored
  BY DEF Base
<1>2. ASSUME UNCHANGED <<link, wired, stored, stack, refused>> PROVE RegisteredAsFiltered'
  BY <1>2 DEF RegisteredAsFiltered, AuthWaits
<1>3. ASSUME link' # "Authed" PROVE RegisteredAsFiltered'
  BY <1>3 DEF RegisteredAsFiltered
<1>4. CASE TorStarts \/ ReadPipe \/ HandleEvent \/ ClearMessages \/ UNCHANGED vars
  BY <1>2, <1>4 DEF TorStarts, ReadPipe, HandleEvent, ClearMessages, vars, torside, history
<1>5. ASSUME NEW s \in Severities, TorLogs(s) PROVE RegisteredAsFiltered'
  BY <1>2, <1>5 DEF TorLogs, history
<1>6. CASE TorExits \/ LinkGoesUp \/ LinkGoesDown \/ VidaliaRestarts
  BY <1>3, <1>6 DEF TorExits, LinkGoesUp, LinkGoesDown, VidaliaRestarts
<1>7. CASE (\E form \in Settings : Save(form)) \/ Cancel \/ BoxAnswered
  <2>1. Changes
    BY <1>1, <1>7, ChangesAre DEF Fits, LogsAsStored, FileOf
  <2>2. CASE Registering(stored'.filter)
    BY <2>2 DEF Registering, RegisteredAsFiltered
  <2>3. CASE UNCHANGED <<stored, link, wired, refused, overlap>>
    BY <2>1, <2>3 DEF Changes, RegisteredAsFiltered
  <2> QED BY <2>1, <2>2, <2>3 DEF Changes
<1>8. CASE Authenticate
  <2>1. Frame("auth") \in FrameOf /\ Frame("auth").at = "auth" /\ stack' = Append(stack, Frame("auth"))
    BY <1>8, FramesAre DEF Authenticate
  <2>2. AuthWaits'
    BY <1>1, <2>1, StackIs DEF AuthWaits
  <2> QED BY <2>2 DEF RegisteredAsFiltered
<1>9. CASE RegisterAll
  BY <1>9 DEF RegisterAll, Accepted, Asked, Refused, RegisteredAsFiltered
<1> QED BY <1>4, <1>5, <1>6, <1>7, <1>8, <1>9 DEF Next, TorStep

\* Tor reports what the filter lets through, however often the filter changes, and although
\* a change may come before the slots that wait for authenticated(), unless it refused.
THEOREM FilterIsRegistered == Spec => []RegisteredAsFiltered
<1>1. Init => RegisteredAsFiltered
  BY DEF Init, RegisteredAsFiltered
<1> QED BY <1>1, InitBase, StepBase, StepRegisters, PTL DEF Spec

------------------------------------------------------------------------------
(* The order of the list *)

\* What is read from the standard output is of the Tor that is there, which reports no
\* events meanwhile unless it was asked for them too early.
OneWay ==
    /\ stdout \/ pipe = <<>>
    /\ \A i \in DOMAIN pipe : pipe[i].tor = tor.id
    /\ (stdout /\ tor.id \notin overlap) => (wired = {} /\ \A i \in DOMAIN queue : queue[i].tor # tor.id)

\* What is listed came before all that is on its way.
Arrived ==
    /\ Ordered(overlap, listed) /\ Ordered(overlap, pipe) /\ Ordered(overlap, queue)
    /\ AllBefore(overlap, listed, pipe) /\ AllBefore(overlap, listed, queue)
    /\ Sent(tor, listed) /\ Sent(tor, pipe) /\ Sent(tor, queue)

LEMMA NothingIsOrdered ==
    /\ \A o : Ordered(o, <<>>)
    /\ \A o, s : AllBefore(o, <<>>, s) /\ AllBefore(o, s, <<>>)
    /\ \A t : Sent(t, <<>>)
BY DEF Ordered, AllBefore, Sent

\* What a Tor logs next comes after all that it has logged.
LEMMA NextIsLast ==
    ASSUME NEW t, NEW u, t.said \in Nat, u.id = t.id, u.said = t.said + 1,
           NEW m \in Messages, m.tor = t.id, m.n = t.said + 1,
           NEW s \in Seq(Messages), Sent(t, s), NEW o
    PROVE  AllBefore(o, s, <<m>>) /\ Sent(u, s) /\ LoggedBy(u, m)
<1>1. \A i \in DOMAIN s : s[i] \in Messages
  BY ElementOfSeq
<1>2. \A i \in DOMAIN s : s[i].tor \in Nat /\ s[i].n \in Nat
  BY <1>1, LogAssumption DEF Messages, LogAssumption
<1>3. m.tor \in Nat /\ m.n \in Nat
  BY LogAssumption DEF Messages, LogAssumption
<1>4. DOMAIN <<m>> = 1 .. 1 /\ <<m>>[1] = m /\ \A i \in 1 .. 1 : i = 1
  OBVIOUS
<1> QED BY <1>2, <1>3, <1>4 DEF Sent, LoggedBy, AllBefore, Precedes

\* A new list that holds a part of the old one, and a message that came before all on the way.
LEMMA ListGrows ==
    ASSUME NEW o, NEW t, NEW old \in Seq(Messages), NEW r \in Seq(Messages), Part(r, old),
           NEW m \in Messages, NEW new, new = r \/ new = Append(r, m),
           NEW x, NEW y, Ordered(o, old), Sent(t, old), LoggedBy(t, m),
           AllBefore(o, old, <<m>>), AllBefore(o, old, x), AllBefore(o, old, y),
           AllBefore(o, <<m>>, x), AllBefore(o, <<m>>, y)
    PROVE  Ordered(o, new) /\ Sent(t, new) /\ AllBefore(o, new, x) /\ AllBefore(o, new, y)
<1>1. /\ Ordered(o, r) /\ Sent(t, r) /\ AllBefore(o, r, <<m>>)
      /\ AllBefore(o, r, x) /\ AllBefore(o, r, y)
  BY PartKeeps
<1> QED BY <1>1, AppendKeeps

LEMMA StepOneWay == Base /\ OneWay /\ Arrived /\ [Next]_vars => OneWay'
<1> SUFFICES ASSUME Base, OneWay, Arrived, [Next]_vars PROVE OneWay'
  OBVIOUS
<1>1. /\ TypeOK /\ Linked /\ Fits /\ LogsAsStored
      /\ tor.id \in Nat /\ pipe \in Seq(Messages) /\ queue \in Seq(Messages)
  BY LogAssumption DEF Base, TypeOK, LogAssumption
<1>2. ASSUME UNCHANGED <<stdout, pipe, queue, overlap>>, tor'.id = tor.id,
             UNCHANGED wired \/ wired' = {}
      PROVE  OneWay'
  BY <1>2 DEF OneWay
<1>3. ASSUME pipe' = <<>>, stdout' = FALSE PROVE OneWay'
  BY <1>3 DEF OneWay
<1>4. CASE TorStarts
  <2>1. tor'.id = tor.id + 1 /\ pipe = <<>> /\ pipe' = <<>> /\ UNCHANGED <<wired, queue, overlap>>
    BY <1>4 DEF TorStarts, history
  <2>2. wired' = {}
    BY <1>1, <1>4, <2>1 DEF TorStarts, Linked
  <2>3. \A i \in DOMAIN queue : queue[i].tor <= tor.id /\ queue[i] \in Messages
    BY <1>1, ElementOfSeq DEF Arrived, Sent, LoggedBy
  <2>4. \A i \in DOMAIN queue : queue[i].tor # tor.id + 1
    BY <1>1, <2>3, LogAssumption DEF Messages, LogAssumption
  <2> QED BY <2>1, <2>2, <2>4 DEF OneWay
<1>5. CASE TorExits \/ LinkGoesDown
  <2>1. tor'.id = tor.id
    BY <1>1, <1>5 DEF TorExits, LinkGoesDown, TypeOK
  <2> QED BY <1>2, <1>5, <2>1 DEF TorExits, LinkGoesDown, channels
<1>6. ASSUME NEW s \in Severities, TorLogs(s) PROVE OneWay'
  <2>1. PICK m : m = [tor |-> tor.id, n |-> tor.said + 1, sev |-> s]
    OBVIOUS
  <2>2. /\ tor'.id = tor.id /\ UNCHANGED <<wired, stdout, overlap>> /\ m.tor = tor.id
        /\ pipe' = IF stdout /\ s \in Printed THEN Append(pipe, m) ELSE pipe
        /\ queue' = IF s \in wired THEN Append(queue, m) ELSE queue
    BY <1>1, <1>6, <2>1 DEF TorLogs, TypeOK, history
  <2>3. m \in Messages
    <3>1. tor.id \in 1 .. MaxTors /\ tor.said + 1 \in 1 .. MaxMessages
      BY <1>1, <1>6, LogAssumption DEF TorLogs, TypeOK, LogAssumption
    <3> QED BY <2>1, <3>1 DEF Messages
  <2>4. stdout \/ pipe' = <<>>
    BY <2>2 DEF OneWay
  <2>5. \A i \in DOMAIN pipe' : pipe'[i].tor = tor.id
    <3>1. CASE UNCHANGED pipe
      BY <3>1 DEF OneWay
    <3>2. CASE pipe' = Append(pipe, m)
      <4>1. PICK n : n = Len(pipe)
        OBVIOUS
      <4>2. /\ DOMAIN pipe' = 1 .. n + 1 /\ DOMAIN pipe = 1 .. n /\ n \in Nat /\ pipe'[n + 1] = m
            /\ \A i \in 1 .. n : pipe'[i] = pipe[i]
        BY <1>1, <2>3, <3>2, <4>1, Pushed
      <4>3. \A i \in 1 .. n + 1 : i = n + 1 \/ i \in 1 .. n
        BY <4>2
      <4> QED BY <2>2, <4>2, <4>3 DEF OneWay
    <3> QED BY <2>2, <3>1, <3>2
  <2>6. (stdout /\ tor.id \notin overlap) => wired = {} /\ queue' = queue
    BY <2>2 DEF OneWay
  <2> QED BY <2>2, <2>4, <2>5, <2>6 DEF OneWay
<1>7. CASE LinkGoesUp \/ ClearMessages \/ Authenticate \/ UNCHANGED vars
  BY <1>2, <1>7 DEF LinkGoesUp, ClearMessages, Authenticate, vars, torside, channels, history
<1>8. CASE ReadPipe
  <2>1. stdout /\ pipe' = Tail(pipe) /\ pipe # <<>> /\ UNCHANGED <<tor, wired, stdout, queue, overlap>>
    BY <1>8 DEF ReadPipe, torside, history
  <2>2. \A i \in DOMAIN pipe' : pipe'[i].tor = tor.id
    <3>1. PICK n : n = Len(pipe)
      OBVIOUS
    <3>2. /\ DOMAIN pipe' = 1 .. n - 1 /\ DOMAIN pipe = 1 .. n /\ n \in Nat
          /\ \A i \in 1 .. n - 1 : pipe'[i] = pipe[i + 1]
      BY <1>1, <2>1, <3>1, Dequeued
    <3>3. \A i \in 1 .. n - 1 : i + 1 \in 1 .. n
      BY <3>2
    <3> QED BY <3>2, <3>3 DEF OneWay
  <2> QED BY <2>1, <2>2 DEF OneWay
<1>9. CASE HandleEvent
  <2>1. queue' = Tail(queue) /\ queue # <<>> /\ UNCHANGED <<tor, wired, stdout, pipe, overlap>>
    BY <1>9 DEF HandleEvent, torside, history
  <2>2. (stdout /\ tor.id \notin overlap) => \A i \in DOMAIN queue' : queue'[i].tor # tor.id
    <3>1. PICK n : n = Len(queue)
      OBVIOUS
    <3>2. /\ DOMAIN queue' = 1 .. n - 1 /\ DOMAIN queue = 1 .. n /\ n \in Nat
          /\ \A i \in 1 .. n - 1 : queue'[i] = queue[i + 1]
      BY <1>1, <2>1, <3>1, Dequeued
    <3>3. \A i \in 1 .. n - 1 : i + 1 \in 1 .. n
      BY <3>2
    <3> QED BY <3>2, <3>3 DEF OneWay
  <2> QED BY <2>1, <2>2 DEF OneWay
<1>10. CASE (\E form \in Settings : Save(form)) \/ Cancel \/ BoxAnswered
  <2>1. Changes
    BY <1>1, <1>10, ChangesAre DEF Fits, LogsAsStored, FileOf
  <2>2. CASE /\ wired' = stored'.filter
             /\ overlap' = IF stdout THEN overlap \cup {tor.id} ELSE overlap
    BY <2>1, <2>2 DEF Changes, channels, OneWay
  <2>3. CASE UNCHANGED <<wired, overlap>>
    BY <1>2, <2>1, <2>3 DEF Changes, channels
  <2> QED BY <2>1, <2>2, <2>3 DEF Changes, Registering
<1>11. CASE RegisterAll
  <2>1. CASE CloseStdout
    BY <1>3, <2>1 DEF CloseStdout
  <2>2. CASE UNCHANGED <<wired, stdout, pipe>>
    BY <1>2, <1>11, <2>2 DEF RegisterAll
  <2> QED BY <1>11, <2>1, <2>2 DEF RegisterAll, Refused, LeaveStdout
<1>12. CASE VidaliaRestarts
  BY <1>3, <1>12 DEF VidaliaRestarts
<1> QED BY <1>4, <1>5, <1>6, <1>7, <1>8, <1>9, <1>10, <1>11, <1>12 DEF Next, TorStep

LEMMA StepArrives == Base /\ OneWay /\ Arrived /\ [Next]_vars => Arrived'
<1> SUFFICES ASSUME Base, OneWay, Arrived, [Next]_vars PROVE Arrived'
  OBVIOUS
<1>1. /\ TypeOK /\ Linked /\ Fits /\ LogsAsStored
      /\ listed \in Seq(Messages) /\ pipe \in Seq(Messages) /\ queue \in Seq(Messages)
  BY DEF Base, TypeOK
<1>2. ASSUME UNCHANGED <<pipe, queue, listed, overlap>>, tor'.id = tor.id, tor'.said = tor.said
      PROVE  Arrived'
  BY <1>2 DEF Arrived, Sent, LoggedBy
<1>3. CASE TorStarts
  <2>1. /\ tor' = [id |-> tor.id + 1, runs |-> TRUE, said |-> 0]
        /\ UNCHANGED <<pipe, queue, listed, overlap>>
    BY <1>3 DEF TorStarts, history
  <2>2. tor.id \in Nat
    BY <1>1, LogAssumption DEF TypeOK, LogAssumption
  <2>3. ASSUME NEW s \in Seq(Messages), Sent(tor, s) PROVE Sent(tor', s)
    <3>1. \A i \in DOMAIN s : s[i] \in Messages
      BY ElementOfSeq
    <3>2. \A i \in DOMAIN s : s[i].tor \in Nat
      BY <3>1, LogAssumption DEF Messages, LogAssumption
    <3> QED BY <2>1, <2>2, <2>3, <3>2 DEF Sent, LoggedBy
  <2> QED BY <1>1, <2>1, <2>3 DEF Arrived
<1>4. CASE TorExits \/ LinkGoesUp \/ LinkGoesDown \/ Authenticate \/ UNCHANGED vars
  <2>1. tor'.id = tor.id /\ tor'.said = tor.said
    BY <1>1, <1>4 DEF TorExits, LinkGoesUp, LinkGoesDown, Authenticate, vars, torside, TypeOK
  <2> QED BY <1>2, <1>4, <2>1
          DEF TorExits, LinkGoesUp, LinkGoesDown, Authenticate, vars, channels, history
<1>5. ASSUME NEW s \in Severities, TorLogs(s) PROVE Arrived'
  <2>1. PICK m : m = [tor |-> tor.id, n |-> tor.said + 1, sev |-> s]
    OBVIOUS
  <2>2. /\ tor'.id = tor.id /\ tor'.said = tor.said + 1 /\ UNCHANGED <<listed, overlap>>
        /\ m.tor = tor.id /\ m.n = tor.said + 1 /\ tor.said \in Nat
        /\ pipe' = pipe \/ pipe' = Append(pipe, m)
        /\ queue' = queue \/ queue' = Append(queue, m)
    BY <1>1, <1>5, <2>1, LogAssumption DEF TorLogs, TypeOK, history, LogAssumption
  <2>3. m \in Messages
    <3>1. tor.id \in 1 .. MaxTors /\ tor.said + 1 \in 1 .. MaxMessages
      BY <1>1, <1>5, LogAssumption DEF TorLogs, TypeOK, LogAssumption
    <3> QED BY <2>1, <3>1 DEF Messages
  <2>4. \A x \in Seq(Messages) : Sent(tor, x) =>
           AllBefore(overlap, x, <<m>>) /\ Sent(tor', x) /\ LoggedBy(tor', m)
    BY <2>2, <2>3, NextIsLast
  <2>5. \A x \in Seq(Messages) : Ordered(overlap, x) /\ Sent(tor, x) =>
           Ordered(overlap, Append(x, m)) /\ Sent(tor', Append(x, m))
    BY <2>3, <2>4, AppendKeeps
  <2>6. Ordered(overlap, pipe') /\ Sent(tor', pipe')
    BY <1>1, <2>2, <2>4, <2>5 DEF Arrived
  <2>7. Ordered(overlap, queue') /\ Sent(tor', queue')
    BY <1>1, <2>2, <2>4, <2>5 DEF Arrived
  <2>8. \A x \in Seq(Messages) : AllBefore(overlap, listed, x) =>
           AllBefore(overlap, listed, Append(x, m))
    BY <1>1, <2>3, <2>4, AppendKeeps DEF Arrived
  <2>9. AllBefore(overlap, listed, pipe') /\ AllBefore(overlap, listed, queue')
    BY <1>1, <2>2, <2>8 DEF Arrived
  <2> QED BY <1>1, <2>2, <2>4, <2>6, <2>7, <2>9 DEF Arrived
<1>6. CASE ReadPipe
  <2>1. PICK m : m = Head(pipe)
    OBVIOUS
  <2>2. /\ stdout /\ pipe # <<>> /\ pipe' = Tail(pipe) /\ Log(m)
        /\ UNCHANGED <<tor, queue, overlap>>
    BY <1>6, <2>1 DEF ReadPipe, torside, history
  <2>3. /\ m \in Messages /\ LoggedBy(tor, m) /\ Ordered(overlap, pipe') /\ Sent(tor, pipe')
        /\ AllBefore(overlap, <<m>>, pipe') /\ AllBefore(overlap, listed, <<m>>)
        /\ AllBefore(overlap, listed, pipe')
    BY <1>1, <2>1, <2>2, TailKeeps DEF Arrived
  <2>4. AllBefore(overlap, <<m>>, queue)
    <3>1. m.tor = tor.id
      BY <1>1, <2>1, <2>2, Dequeued DEF OneWay
    <3>2. DOMAIN <<m>> = 1 .. 1 /\ <<m>>[1] = m /\ \A i \in 1 .. 1 : i = 1
      OBVIOUS
    <3> QED BY <2>2, <3>1, <3>2 DEF OneWay, AllBefore, Precedes
  <2>5. PICK r \in Seq(Messages) : Part(r, listed) /\ (listed' = r \/ listed' = Append(r, m))
    BY <1>1, <2>2, <2>3, LogIs
  <2>6. /\ Ordered(overlap, listed') /\ Sent(tor, listed')
        /\ AllBefore(overlap, listed', pipe') /\ AllBefore(overlap, listed', queue)
    BY <1>1, <2>3, <2>4, <2>5, ListGrows DEF Arrived
  <2> QED BY <2>2, <2>3, <2>6 DEF Arrived
<1>7. CASE HandleEvent
  <2>1. PICK m : m = Head(queue)
    OBVIOUS
  <2>2. queue # <<>> /\ queue' = Tail(queue) /\ Log(m) /\ UNCHANGED <<tor, pipe, overlap>>
    BY <1>7, <2>1 DEF HandleEvent, torside, history
  <2>3. /\ m \in Messages /\ LoggedBy(tor, m) /\ Ordered(overlap, queue') /\ Sent(tor, queue')
        /\ AllBefore(overlap, <<m>>, queue') /\ AllBefore(overlap, listed, <<m>>)
        /\ AllBefore(overlap, listed, queue')
    BY <1>1, <2>1, <2>2, TailKeeps DEF Arrived
  <2>4. AllBefore(overlap, <<m>>, pipe)
    <3>1. DOMAIN <<m>> = 1 .. 1 /\ <<m>>[1] = m /\ \A i \in 1 .. 1 : i = 1
      OBVIOUS
    <3>2. ASSUME NEW j \in DOMAIN pipe, m.tor = pipe[j].tor, m.tor \notin overlap PROVE FALSE
      <4>1. pipe # <<>> /\ pipe[j].tor = tor.id
        BY <3>2 DEF OneWay
      <4>2. \E i \in DOMAIN queue : queue[i] = m
        <5>1. m = queue[1] /\ 1 <= Len(queue) /\ DOMAIN queue = 1 .. Len(queue) /\ Len(queue) \in Nat
          BY <1>1, <2>1, <2>2, Dequeued
        <5>2. 1 \in 1 .. Len(queue)
          BY <5>1
        <5> QED BY <5>1, <5>2
      <4> QED BY <3>2, <4>1, <4>2 DEF OneWay
    <3> QED BY <3>1, <3>2 DEF AllBefore, Precedes
  <2>5. PICK r \in Seq(Messages) : Part(r, listed) /\ (listed' = r \/ listed' = Append(r, m))
    BY <1>1, <2>2, <2>3, LogIs
  <2>6. /\ Ordered(overlap, listed') /\ Sent(tor, listed')
        /\ AllBefore(overlap, listed', queue') /\ AllBefore(overlap, listed', pipe)
    BY <1>1, <2>3, <2>4, <2>5, ListGrows DEF Arrived
  <2> QED BY <2>2, <2>3, <2>6 DEF Arrived
<1>8. CASE ClearMessages
  BY <1>8, NothingIsOrdered DEF ClearMessages, torside, channels, history, Arrived
<1>9. CASE (\E form \in Settings : Save(form)) \/ Cancel \/ BoxAnswered
  <2>1. Changes
    BY <1>1, <1>9, ChangesAre DEF Fits, LogsAsStored, FileOf
  <2>2. overlap \subseteq overlap' /\ UNCHANGED <<tor, pipe, queue>>
    BY <2>1 DEF Changes, Registering, channels
  <2>3. /\ Ordered(overlap, listed') /\ Sent(tor, listed')
        /\ AllBefore(overlap, listed', pipe) /\ AllBefore(overlap, listed', queue)
    BY <1>1, <2>1, PartKeeps DEF Changes, Arrived
  <2>4. PICK p : p = overlap'
    OBVIOUS
  <2>5. /\ Ordered(p, listed') /\ Ordered(p, pipe) /\ Ordered(p, queue)
        /\ AllBefore(p, listed', pipe) /\ AllBefore(p, listed', queue)
    BY <2>2, <2>3, <2>4, OverlapGrows DEF Arrived
  <2> QED BY <2>2, <2>3, <2>4, <2>5 DEF Arrived
<1>10. CASE RegisterAll
  <2>1. UNCHANGED <<tor, queue, listed, overlap>> /\ (pipe' = <<>> \/ pipe' = pipe)
    BY <1>10 DEF RegisterAll, CloseStdout, LeaveStdout
  <2> QED BY <2>1, NothingIsOrdered DEF Arrived
<1>11. CASE VidaliaRestarts
  <2>1. pipe' = <<>> /\ queue' = <<>> /\ listed' = <<>>
    BY <1>11 DEF VidaliaRestarts
  <2> QED BY <2>1, NothingIsOrdered DEF Arrived
<1> QED BY <1>3, <1>4, <1>5, <1>6, <1>7, <1>8, <1>9, <1>10, <1>11 DEF Next, TorStep

\* However Tor's messages come, before and after it accepts a SETEVENTS, the list holds
\* those of a Tor in the order in which it logged them, none twice, and never too many.
THEOREM LogInOrder == Spec => []InOrder
<1>1. Init => OneWay /\ Arrived
  BY NothingIsOrdered DEF Init, OneWay, Arrived
<1>2. Base /\ Arrived => InOrder
  BY DEF Base, Fits, Arrived, Ordered, Precedes, InOrder
<1> QED BY <1>1, <1>2, InitBase, StepBase, StepOneWay, StepArrives, PTL DEF Spec

------------------------------------------------------------------------------
(* The notifications about Tor's status (module StatusEvents) *)

Posted == {<<p[3], p[4]>> : p \in Parsed}
SignalSet == Posted \cup {<<"connected", "none">>, <<"disconnected", "none">>}
Words == {"Running", "NotRunning", "another"}
Slots == {"auth", "version", "port"}

\* The state has its types.
LinkType ==
    /\ torLink \in {"Down", "Up", "Authed"} /\ subscribed \in BOOLEAN /\ established \in BOOLEAN
    /\ peer \in [version : Versions, liberal : BOOLEAN]
    /\ connects \in Nat /\ gap \in BOOLEAN
ListType ==
    /\ limit \in Limits /\ items \in Seq(Words) /\ Len(items) <= limit
WindowType ==
    /\ signals \in Seq(SignalSet) /\ slots \in Seq(Slots)
    /\ squelch \in BOOLEAN /\ warned \in BOOLEAN /\ noticed \in BOOLEAN
    /\ online \in {0, 1} /\ accepted \in BOOLEAN /\ initialised \in BOOLEAN
StatusType == LinkType /\ ListType /\ WindowType

------------------------------------------------------------------------------
(* Signals *)

Arg(s) ==
    /\ s[1] = "socksError" => s[2] \in {"DangerousSocksType", "UnknownSocksProtocol", "BadSocksHostname"}
    /\ s[1] \in {"orPortReachabilityFinished", "dirPortReachabilityFinished"} => s[2] \in {"true", "false"}

\* An event of Tor is not the end or the beginning of a connection, and that of a circuit
\* tells the GUI thread of it.
ParsedOf(p) ==
    /\ p[3] \notin {"connected", "disconnected"} /\ Arg(<<p[3], p[4]>>)
    /\ p[1] = "CIRCUIT_ESTABLISHED" <=> p[3] = "circuitEstablished"

LEMMA GeneralParsed == \A p \in General : ParsedOf(p)
BY DEF General, ParsedOf, Arg

LEMMA ClientParsed == \A p \in Client : ParsedOf(p)
BY DEF Client, ParsedOf, Arg

LEMMA ServerParsed == \A p \in Server : ParsedOf(p)
BY DEF Server, ParsedOf, Arg

LEMMA EveryParsed == \A p \in Parsed : ParsedOf(p)
BY GeneralParsed, ClientParsed, ServerParsed DEF Parsed

LEMMA PostedSignals ==
    ASSUME NEW s \in Posted
    PROVE  s[1] \notin {"connected", "disconnected"} /\ Arg(s)
<1>1. PICK p \in Parsed : s = <<p[3], p[4]>>
  BY DEF Posted
<1>2. ParsedOf(p)
  BY <1>1, EveryParsed
<1> QED BY <1>1, <1>2 DEF ParsedOf

LEMMA CircuitEvents ==
    ASSUME NEW e \in Events, e[1] = "CIRCUIT_ESTABLISHED"
    PROVE  Signals(e) # {} /\ \A s \in Signals(e) : s[1] = "circuitEstablished"
<1>1. PICK q \in Parsed : e = <<q[1], q[2]>>
  <2>1. \A u \in Unparsed : u[1] # "CIRCUIT_ESTABLISHED"
    BY DEF Unparsed
  <2> QED BY <2>1 DEF Events
<1>2. <<q[3], q[4]>> \in Signals(e)
  BY <1>1 DEF Signals
<1>3. ASSUME NEW s \in Signals(e) PROVE s[1] = "circuitEstablished"
  <2>1. PICK p \in Parsed : <<p[1], p[2]>> = e /\ s = <<p[3], p[4]>>
    BY DEF Signals
  <2>2. ParsedOf(p) /\ p[1] = "CIRCUIT_ESTABLISHED"
    BY <2>1, EveryParsed
  <2> QED BY <2>1, <2>2 DEF ParsedOf
<1> QED BY <1>2, <1>3

\* Post(e): nothing, or one signal at the end of the queue.
LEMMA PostIs ==
    ASSUME NEW e \in Events, signals \in Seq(SignalSet), Post(e)
    PROVE  \/ /\ signals' = signals /\ (e[1] = "CIRCUIT_ESTABLISHED" => subscribed # TRUE)
           \/ \E s \in Posted : /\ signals' = Append(signals, s)
                                /\ e[1] = "CIRCUIT_ESTABLISHED" => s[1] = "circuitEstablished"
<1>1. Signals(e) \subseteq Posted
  BY DEF Signals, Posted
<1>2. CASE ~subscribed
  BY <1>2 DEF Post
<1>3. CASE subscribed /\ Signals(e) = {}
  <2>1. AtMostOne(Signals(e)) = <<>> /\ e[1] # "CIRCUIT_ESTABLISHED"
    BY <1>3, CircuitEvents DEF AtMostOne
  <2>2. signals' = signals \o <<>>
    BY <1>3, <2>1 DEF Post
  <2>3. signals' = signals
    BY <2>2, ConcatEmptySeq
  <2> QED BY <2>1, <2>3
<1>4. CASE subscribed /\ Signals(e) # {}
  <2>1. PICK s : s = CHOOSE x \in Signals(e) : TRUE
    OBVIOUS
  <2>2. s \in Signals(e)
    BY <1>4, <2>1
  <2>3. s \in Posted /\ (e[1] = "CIRCUIT_ESTABLISHED" => s[1] = "circuitEstablished")
    BY <1>1, <2>2, CircuitEvents
  <2>4. AtMostOne(Signals(e)) = <<s>>
    BY <1>4, <2>1 DEF AtMostOne
  <2>5. signals' = signals \o <<s>>
    BY <1>4, <2>4 DEF Post
  <2>6. signals' = Append(signals, s)
    <3>1. s \in SignalSet
      BY <2>3 DEF SignalSet
    <3> QED BY <2>5, <3>1, AppendIsConcat
  <2> QED BY <2>3, <2>6
<1> QED BY <1>2, <1>3, <1>4
------------------------------------------------------------------------------
(* The list of notifications *)

\* What the newest notification on whether Tor runs says, if there is one.
LastIn(s, i) ==
    /\ s[i] \in {"Running", "NotRunning"}
    /\ \A j \in DOMAIN s : j > i => s[j] = "another"
Tells(s, b) == \A i \in DOMAIN s : LastIn(s, i) => ((s[i] = "Running") <=> b)
ListFits(s) == s \in Seq(Words) /\ Len(s) <= limit

LEMMA KeptWords ==
    ASSUME NEW title
    PROVE  /\ TitleKept(title) \in Words
           /\ title \notin {"Running", "NotRunning"} => TitleKept(title) = "another"
           /\ title \in {"Running", "NotRunning"} => TitleKept(title) = title
BY DEF TitleKept, Running, NotRunning, Words

\* A list without its oldest items says what it said.
LEMMA ShortenedTells ==
    ASSUME NEW s \in Seq(Words), NEW r \in Seq(Words), NEW k \in Nat, NEW b,
           Len(s) = Len(r) + k, \A i \in 1 .. Len(r) : r[i] = s[i + k], Tells(s, b)
    PROVE  Tells(r, b)
<1>1. PICK m \in Nat : m = Len(r)
  OBVIOUS
<1>2. DOMAIN r = 1 .. m /\ DOMAIN s = 1 .. m + k /\ \A i \in 1 .. m : r[i] = s[i + k]
  BY <1>1
<1> SUFFICES ASSUME NEW i \in 1 .. m, LastIn(r, i) PROVE (r[i] = "Running") <=> b
  BY <1>2 DEF Tells
<1>3. i + k \in 1 .. m + k /\ s[i + k] = r[i]
  BY <1>2
<1>4. ASSUME NEW j \in 1 .. m + k, j > i + k PROVE s[j] = "another"
  <2>1. j - k \in 1 .. m /\ j - k > i /\ j - k + k = j
    BY <1>4
  <2>2. r[j - k] = "another"
    BY <1>2, <2>1 DEF LastIn
  <2> QED BY <1>2, <2>1, <2>2
<1>5. LastIn(s, i + k)
  BY <1>2, <1>3, <1>4 DEF LastIn
<1> QED BY <1>2, <1>3, <1>5 DEF Tells

\* addNotification()
LEMMA AddedItem ==
    ASSUME limit \in Limits, NEW s, ListFits(s), NEW title
    PROVE  /\ ListFits(Added(s, title))
           /\ title \in {"Running", "NotRunning"} => Tells(Added(s, title), title = "Running")
           /\ title \notin {"Running", "NotRunning"} =>
                  \A b : Tells(s, b) => Tells(Added(s, title), b)
<1>1. PICK w : w = TitleKept(title)
  OBVIOUS
<1>2. PICK r : r = IF Len(s) = limit THEN Tail(s) ELSE s
  OBVIOUS
<1>3. limit \in Nat /\ limit # 0 /\ s \in Seq(Words) /\ Len(s) <= limit /\ Len(s) \in Nat
  BY StatusAssumption DEF ListFits
<1>4. /\ r \in Seq(Words) /\ Len(r) < limit /\ Len(r) \in Nat
      /\ \A b : Tells(s, b) => Tells(r, b)
  <2>1. CASE Len(s) = limit
    <3>1. s # <<>>
      BY <1>3, <2>1
    <3>2. r = Tail(s) /\ r \in Seq(Words) /\ Len(r) = Len(s) - 1
          /\ \A i \in 1 .. Len(s) - 1 : r[i] = s[i + 1]
      BY <1>2, <1>3, <2>1, <3>1, Dequeued
    <3>3. Len(s) = Len(r) + 1 /\ \A i \in 1 .. Len(r) : r[i] = s[i + 1]
      BY <1>3, <3>2
    <3>4. ASSUME NEW b, Tells(s, b) PROVE Tells(r, b)
      <4>1. 1 \in Nat /\ Len(s) = Len(r) + 1
        BY <3>3
      <4> QED BY <1>3, <3>2, <3>3, <3>4, <4>1, ShortenedTells
    <3> QED BY <1>3, <2>1, <3>2, <3>4
  <2>2. CASE Len(s) # limit
    BY <1>2, <1>3, <2>2
  <2> QED BY <2>1, <2>2
<1>5. PICK n \in Nat : n = Len(r)
  BY <1>4
<1>6. PICK a : a = Append(r, w)
  OBVIOUS
<1>7. /\ Added(s, title) = a /\ a \in Seq(Words) /\ Len(a) = n + 1
      /\ DOMAIN a = 1 .. n + 1 /\ DOMAIN r = 1 .. n
      /\ a[n + 1] = w /\ \A i \in 1 .. n : a[i] = r[i]
  <2>1. w \in Words
    BY <1>1, KeptWords
  <2>2. Added(s, title) = a
    BY <1>1, <1>2, <1>6 DEF Added
  <2> QED BY <1>4, <1>5, <1>6, <2>1, <2>2, Pushed
<1>8. ListFits(a)
  BY <1>3, <1>4, <1>5, <1>7 DEF ListFits
<1>9. ASSUME title \in {"Running", "NotRunning"} PROVE Tells(a, title = "Running")
  <2>1. w = title /\ w # "another"
    BY <1>1, <1>9, KeptWords
  <2> SUFFICES ASSUME NEW i \in 1 .. n + 1, LastIn(a, i) PROVE (a[i] = "Running") <=> (title = "Running")
    BY <1>7 DEF Tells
  <2>2. n + 1 \in 1 .. n + 1 /\ (i # n + 1 => n + 1 > i)
    OBVIOUS
  <2>3. i = n + 1
    BY <1>7, <2>1, <2>2 DEF LastIn
  <2> QED BY <1>7, <2>1, <2>3
<1>10. ASSUME title \notin {"Running", "NotRunning"}, NEW b, Tells(s, b) PROVE Tells(a, b)
  <2>1. w = "another" /\ Tells(r, b)
    BY <1>1, <1>4, <1>10, KeptWords
  <2> SUFFICES ASSUME NEW i \in 1 .. n + 1, LastIn(a, i) PROVE (a[i] = "Running") <=> b
    BY <1>7 DEF Tells
  <2>2. i # n + 1
    BY <1>7, <2>1 DEF LastIn
  <2>3. i \in 1 .. n /\ a[i] = r[i] /\ \A j \in 1 .. n : a[j] = r[j] /\ j \in 1 .. n + 1
    BY <1>7, <2>2
  <2>4. LastIn(r, i)
    BY <1>7, <2>3 DEF LastIn
  <2> QED BY <1>7, <2>1, <2>3, <2>4 DEF Tells
<1> QED BY <1>7, <1>8, <1>9, <1>10

\* A notification about anything else, or none.
LEMMA AddedAny ==
    ASSUME limit \in Limits, NEW s, ListFits(s), NEW titles,
           "Running" \notin titles, "NotRunning" \notin titles
    PROVE  /\ ListFits(AddedIfAny(s, titles))
           /\ \A b : Tells(s, b) => Tells(AddedIfAny(s, titles), b)
<1>1. CASE titles = {}
  BY <1>1 DEF AddedIfAny
<1>2. CASE titles # {}
  <2>1. PICK title : title = CHOOSE t \in titles : TRUE
    OBVIOUS
  <2>2. title \notin {"Running", "NotRunning"}
    BY <1>2, <2>1
  <2>3. AddedIfAny(s, titles) = Added(s, title)
    BY <1>2, <2>1 DEF AddedIfAny
  <2> QED BY <2>2, <2>3, AddedItem
<1> QED BY <1>1, <1>2

\* The titles of Tor's events say nothing of whether Tor runs, and that a relay is online only
\* for a descriptor that is not squelched.
Announced(s) == s = <<"serverDescriptorAccepted", "address">>
LEMMA TitlesOf ==
    ASSUME NEW s \in Posted, squelch \in BOOLEAN, NEW liberal
    PROVE  /\ "Running" \notin Titles(s, squelch, liberal)
           /\ "NotRunning" \notin Titles(s, squelch, liberal)
           /\ "RelayOnline" \in Titles(s, squelch, liberal) <=> Announced(s) /\ ~squelch
<1> DEFINE T == Titles(s, squelch, liberal)
<1>1. PICK name, arg : s = <<name, arg>>
  BY DEF Posted
<1>2. name = s[1] /\ arg = s[2]
  BY <1>1
<1>3. Arg(s)
  BY PostedSignals
<1>4. CASE name = "dangerousTorVersion"
  <2>1. T = {"TorOutOfDate"}
    BY <1>2, <1>4 DEF Titles
  <2> QED BY <1>1, <1>4, <2>1 DEF Announced
<1>5. CASE name = "circuitEstablished"
  <2>1. T = {"Connected"}
    BY <1>2, <1>5 DEF Titles
  <2> QED BY <1>1, <1>5, <2>1 DEF Announced
<1>6. CASE name = "bug"
  <2>1. T = {"TorError"}
    BY <1>2, <1>6 DEF Titles
  <2> QED BY <1>1, <1>6, <2>1 DEF Announced
<1>7. CASE name = "clockSkewed"
  <2>1. T = SkewTitles(arg, liberal)
    BY <1>2, <1>7 DEF Titles
  <2>2. T \subseteq {"ClockIncorrect"}
    BY <2>1 DEF SkewTitles
  <2>3. "Running" \notin T /\ "NotRunning" \notin T /\ "RelayOnline" \notin T
    BY <2>2
  <2> QED BY <1>1, <1>7, <2>3 DEF Announced
<1>8. CASE name = "dangerousPort"
  <2>1. T = {"DangerousConnection"}
    BY <1>2, <1>8 DEF Titles
  <2> QED BY <1>1, <1>8, <2>1 DEF Announced
<1>9. CASE name = "socksError"
  <2>1. T = {SocksTitles[arg]}
    BY <1>2, <1>9 DEF Titles
  <2>2. arg \in {"DangerousSocksType", "UnknownSocksProtocol", "BadSocksHostname"}
    BY <1>2, <1>3, <1>9 DEF Arg
  <2>3. SocksTitles[arg] \in {"DangerousConnection", "UnknownSocks", "InvalidHostname"}
    BY <2>2 DEF SocksTitles
  <2>4. "Running" \notin T /\ "NotRunning" \notin T /\ "RelayOnline" \notin T
    BY <2>1, <2>3
  <2> QED BY <1>1, <1>9, <2>4 DEF Announced
<1>10. CASE name \notin {"dangerousTorVersion", "circuitEstablished", "bug", "clockSkewed",
                         "dangerousPort", "socksError"}
  <2>1. T = RelayTitles(name, arg, squelch)
    BY <1>2, <1>10 DEF Titles
  <2>2. CASE name = "serverDescriptorAccepted"
    <3>1. T = IF arg = "address" /\ ~squelch THEN {"RelayOnline"} ELSE {}
      BY <2>1, <2>2 DEF RelayTitles, Announces
    <3> QED BY <1>1, <2>2, <3>1 DEF Announced
  <2>3. CASE name \in {"orPortReachabilityFinished", "dirPortReachabilityFinished"}
    <3>1. T = {PortTitles[arg]}
      BY <2>1, <2>3 DEF RelayTitles
    <3>2. arg \in {"true", "false"}
      BY <1>2, <1>3, <2>3 DEF Arg
    <3>3. PortTitles[arg] \in {"TestSuccessful", "TestFailed"}
      BY <3>2 DEF PortTitles
    <3>4. "Running" \notin T /\ "NotRunning" \notin T /\ "RelayOnline" \notin T
      BY <3>1, <3>3
    <3> QED BY <1>1, <2>3, <3>4 DEF Announced
  <2>4. CASE name \notin {"serverDescriptorAccepted", "orPortReachabilityFinished",
                          "dirPortReachabilityFinished"}
    <3>1. T \subseteq {"DescriptorRejected", "AddressChanged", "CheckingServerPort",
                       "CheckingDirectoryPort", "DNSHijacking"}
      BY <2>1, <2>4 DEF RelayTitles
    <3>2. "Running" \notin T /\ "NotRunning" \notin T /\ "RelayOnline" \notin T
      BY <3>1
    <3> QED BY <1>1, <2>4, <3>2 DEF Announced
  <2> QED BY <2>2, <2>3, <2>4
<1> QED BY <1>4, <1>5, <1>6, <1>7, <1>8, <1>9, <1>10
------------------------------------------------------------------------------
(* Signals on their way, in the order of the connections that they are about *)

Up(q, i) == q[i][1] = "connected"
Gone(q, i) == q[i][1] = "disconnected"
Fresh(q, i) == \A j \in DOMAIN q : j > i => ~Gone(q, j)

\* What is said of the connection last is how it is: while it is down, an end of it follows
\* each beginning, and while it is not, a beginning follows each end and comes last.
Returns(q) == \A i \in DOMAIN q : Gone(q, i) => \E j \in DOMAIN q : j > i /\ Up(q, j) /\ Fresh(q, j)
Begins(q) == \E j \in DOMAIN q : Up(q, j) /\ Fresh(q, j)
Ends(q) == \A i \in DOMAIN q : Up(q, i) => \E j \in DOMAIN q : j > i /\ Gone(q, j)
QueuedIn(q, l) ==
    /\ l # "Down" => Returns(q)
    /\ l = "Up" => Begins(q)
    /\ l = "Down" => Ends(q)

\* Nothing more will be said of the connection.
QuietIn(q) == \A i \in DOMAIN q : ~Up(q, i) /\ ~Gone(q, i)

\* A circuit has been noticed (n) on this connection, or will be.
NoneGone(q) == \A i \in DOMAIN q : ~Gone(q, i)
Promises(q, i) == (Up(q, i) \/ q[i][1] = "circuitEstablished") /\ Fresh(q, i)
HeardIn(q, n) == (n /\ NoneGone(q)) \/ \E i \in DOMAIN q : Promises(q, i)

LEMMA SignalPosted ==
    ASSUME NEW q \in Seq(SignalSet), NEW s \in Posted, NEW r, r = Append(q, s)
    PROVE  /\ r \in Seq(SignalSet)
           /\ \A l : QueuedIn(q, l) => QueuedIn(r, l)
           /\ QuietIn(r) => QuietIn(q)
           /\ \A n : HeardIn(q, n) => HeardIn(r, n)
           /\ \A n : s[1] = "circuitEstablished" => HeardIn(r, n)
<1>1. PICK m \in Nat : m = Len(q)
  OBVIOUS
<1>2. s[1] \notin {"connected", "disconnected"} /\ s \in SignalSet
  BY PostedSignals DEF SignalSet
<1>3. /\ r \in Seq(SignalSet) /\ DOMAIN r = 1 .. m + 1 /\ DOMAIN q = 1 .. m
      /\ r[m + 1] = s /\ \A i \in 1 .. m : r[i] = q[i]
  BY <1>1, <1>2, Pushed
<1>4. /\ \A i \in 1 .. m : i \in 1 .. m + 1 /\ (Up(r, i) <=> Up(q, i)) /\ (Gone(r, i) <=> Gone(q, i))
      /\ ~Up(r, m + 1) /\ ~Gone(r, m + 1)
      /\ \A i \in 1 .. m + 1 : i \in 1 .. m \/ i = m + 1
  BY <1>2, <1>3 DEF Up, Gone
<1>5. ASSUME NEW i \in 1 .. m PROVE Fresh(q, i) => Fresh(r, i)
  BY <1>3, <1>4 DEF Fresh
<1>6. (Returns(q) => Returns(r)) /\ (Begins(q) => Begins(r)) /\ (Ends(q) => Ends(r))
  <2>1. ASSUME Returns(q), NEW i \in 1 .. m + 1, Gone(r, i)
        PROVE  \E j \in 1 .. m + 1 : j > i /\ Up(r, j) /\ Fresh(r, j)
    <3>1. i \in 1 .. m /\ Gone(q, i)
      BY <1>4, <2>1
    <3>2. PICK j \in 1 .. m : j > i /\ Up(q, j) /\ Fresh(q, j)
      BY <1>3, <2>1, <3>1 DEF Returns
    <3> QED BY <1>4, <1>5, <3>2
  <2>2. ASSUME Begins(q) PROVE \E j \in 1 .. m + 1 : Up(r, j) /\ Fresh(r, j)
    BY <1>3, <1>4, <1>5, <2>2 DEF Begins
  <2>3. ASSUME Ends(q), NEW i \in 1 .. m + 1, Up(r, i) PROVE \E j \in 1 .. m + 1 : j > i /\ Gone(r, j)
    <3>1. i \in 1 .. m /\ Up(q, i)
      BY <1>4, <2>3
    <3>2. PICK j \in 1 .. m : j > i /\ Gone(q, j)
      BY <1>3, <2>3, <3>1 DEF Ends
    <3> QED BY <1>4, <3>2
  <2> QED BY <1>3, <2>1, <2>2, <2>3 DEF Returns, Begins, Ends
<1>7. QuietIn(r) => QuietIn(q)
  BY <1>3, <1>4 DEF QuietIn
<1>8. ASSUME NEW n, HeardIn(q, n) PROVE HeardIn(r, n)
  <2>1. CASE n /\ NoneGone(q)
    <3>1. NoneGone(r)
      BY <1>3, <1>4, <2>1 DEF NoneGone
    <3> QED BY <2>1, <3>1 DEF HeardIn
  <2>2. CASE \E i \in DOMAIN q : Promises(q, i)
    <3>1. PICK i \in 1 .. m : Promises(q, i)
      BY <1>3, <2>2
    <3>2. i \in DOMAIN r /\ Promises(r, i)
      BY <1>3, <1>4, <1>5, <3>1 DEF Promises
    <3> QED BY <3>2 DEF HeardIn
  <2> QED BY <1>8, <2>1, <2>2 DEF HeardIn
<1>9. ASSUME NEW n, s[1] = "circuitEstablished" PROVE HeardIn(r, n)
  <2>1. m + 1 \in DOMAIN r /\ Fresh(r, m + 1)
    BY <1>3 DEF Fresh
  <2>2. Promises(r, m + 1)
    BY <1>3, <1>9, <2>1 DEF Promises
  <2> QED BY <2>1, <2>2 DEF HeardIn
<1> QED BY <1>3, <1>6, <1>7, <1>8, <1>9 DEF QueuedIn

LEMMA LinkPosted ==
    ASSUME NEW q \in Seq(SignalSet), NEW s \in {<<"connected", "none">>, <<"disconnected", "none">>},
           NEW r, r = Append(q, s)
    PROVE  /\ r \in Seq(SignalSet) /\ ~QuietIn(r)
           /\ s[1] = "connected" => QueuedIn(r, "Up") /\ \A n : HeardIn(r, n)
           /\ s[1] = "disconnected" => QueuedIn(r, "Down")
<1>1. PICK m \in Nat : m = Len(q)
  OBVIOUS
<1>2. /\ r \in Seq(SignalSet) /\ DOMAIN r = 1 .. m + 1
      /\ r[m + 1] = s /\ \A i \in 1 .. m : r[i] = q[i]
  BY <1>1, Pushed DEF SignalSet
<1>3. m + 1 \in 1 .. m + 1 /\ Fresh(r, m + 1) /\ \A i \in 1 .. m + 1 : i # m + 1 => m + 1 > i
  BY <1>2 DEF Fresh
<1>4. ~QuietIn(r)
  BY <1>2, <1>3 DEF QuietIn, Up, Gone
<1>5. ASSUME s[1] = "connected" PROVE QueuedIn(r, "Up") /\ \A n : HeardIn(r, n)
  <2>1. Up(r, m + 1) /\ ~Gone(r, m + 1)
    BY <1>2, <1>5 DEF Up, Gone
  <2>2. Promises(r, m + 1)
    BY <1>3, <2>1 DEF Promises
  <2>3. Returns(r)
    BY <1>2, <1>3, <2>1 DEF Returns
  <2>4. Begins(r)
    BY <1>2, <1>3, <2>1 DEF Begins
  <2> QED BY <1>2, <1>3, <2>2, <2>3, <2>4 DEF QueuedIn, HeardIn
<1>6. ASSUME s[1] = "disconnected" PROVE QueuedIn(r, "Down")
  <2>1. Gone(r, m + 1) /\ ~Up(r, m + 1)
    BY <1>2, <1>6 DEF Up, Gone
  <2>2. Ends(r)
    BY <1>2, <1>3, <2>1 DEF Ends
  <2> QED BY <2>2 DEF QueuedIn
<1> QED BY <1>2, <1>4, <1>5, <1>6

LEMMA SignalTaken ==
    ASSUME NEW q \in Seq(SignalSet), q # <<>>, NEW r, r = Tail(q), NEW l, QueuedIn(q, l)
    PROVE  /\ r \in Seq(SignalSet) /\ Head(q) = q[1] /\ q[1] \in SignalSet
           /\ ~Up(q, 1) \/ l = "Down" => QueuedIn(r, l)
           /\ l # "Down" => QueuedIn(r, "Authed") /\ \A n \in BOOLEAN : n => HeardIn(r, n)
           /\ l = "Down" /\ Up(q, 1) => ~QuietIn(r)
           /\ l # "Down" /\ Gone(q, 1) => ~QuietIn(r) /\ \A n : HeardIn(r, n)
           /\ ~Up(q, 1) /\ ~Gone(q, 1) /\ QuietIn(r) => QuietIn(q)
           /\ \A n \in BOOLEAN : ~Up(q, 1) /\ ~Gone(q, 1) /\ HeardIn(q, n) =>
                  HeardIn(r, n \/ q[1][1] = "circuitEstablished")
<1>1. PICK m \in Nat : m + 1 = Len(q)
  <2>1. Len(q) \in Nat /\ 1 <= Len(q)
    BY Dequeued
  <2>2. PICK m : m = Len(q) - 1
    OBVIOUS
  <2>3. m \in Nat /\ m + 1 = Len(q)
    BY <2>1, <2>2
  <2> QED BY <2>3
<1>2. /\ r \in Seq(SignalSet) /\ Head(q) = q[1] /\ q[1] \in SignalSet
      /\ DOMAIN r = 1 .. m /\ DOMAIN q = 1 .. m + 1 /\ \A i \in 1 .. m : r[i] = q[i + 1]
  BY <1>1, Dequeued
<1>3. /\ \A i \in 1 .. m : /\ i + 1 \in 1 .. m + 1
                           /\ Up(r, i) <=> Up(q, i + 1)
                           /\ Gone(r, i) <=> Gone(q, i + 1)
  BY <1>2 DEF Up, Gone
<1>4. \A i \in 1 .. m + 1 : i > 1 => i - 1 \in 1 .. m /\ i - 1 + 1 = i
  OBVIOUS
<1>5. ASSUME NEW i \in 1 .. m, Fresh(q, i + 1) PROVE Fresh(r, i)
  <2> SUFFICES ASSUME NEW j \in 1 .. m, j > i PROVE ~Gone(r, j)
    BY <1>2 DEF Fresh
  <2>1. j + 1 \in 1 .. m + 1 /\ j + 1 > i + 1
    OBVIOUS
  <2> QED BY <1>2, <1>3, <1>5, <2>1 DEF Fresh
<1>6. ASSUME NEW j \in 1 .. m + 1, j > 1, Up(q, j), Fresh(q, j)
      PROVE  j - 1 \in 1 .. m /\ Up(r, j - 1) /\ Fresh(r, j - 1)
  <2>1. j - 1 \in 1 .. m /\ j - 1 + 1 = j
    BY <1>6
  <2> QED BY <1>3, <1>5, <1>6, <2>1
<1>7. Returns(q) => Returns(r)
  <2> SUFFICES ASSUME Returns(q), NEW i \in 1 .. m, Gone(r, i)
               PROVE  \E j \in 1 .. m : j > i /\ Up(r, j) /\ Fresh(r, j)
    BY <1>2 DEF Returns
  <2>1. i + 1 \in 1 .. m + 1 /\ Gone(q, i + 1)
    BY <1>3
  <2>2. PICK j \in 1 .. m + 1 : j > i + 1 /\ Up(q, j) /\ Fresh(q, j)
    BY <1>2, <2>1 DEF Returns
  <2>3. j > 1 /\ j - 1 > i
    BY <2>2
  <2> QED BY <1>6, <2>2, <2>3
<1>8. Ends(q) => Ends(r)
  <2> SUFFICES ASSUME Ends(q), NEW i \in 1 .. m, Up(r, i)
               PROVE  \E j \in 1 .. m : j > i /\ Gone(r, j)
    BY <1>2 DEF Ends
  <2>1. i + 1 \in 1 .. m + 1 /\ Up(q, i + 1)
    BY <1>3
  <2>2. PICK j \in 1 .. m + 1 : j > i + 1 /\ Gone(q, j)
    BY <1>2, <2>1 DEF Ends
  <2>3. j > 1 /\ j - 1 > i /\ j - 1 \in 1 .. m /\ j - 1 + 1 = j
    BY <2>2
  <2> QED BY <1>3, <2>2, <2>3
<1>9. Begins(q) /\ ~Up(q, 1) => Begins(r)
  <2> SUFFICES ASSUME Begins(q), ~Up(q, 1) PROVE \E j \in 1 .. m : Up(r, j) /\ Fresh(r, j)
    BY <1>2 DEF Begins
  <2>1. PICK j \in 1 .. m + 1 : Up(q, j) /\ Fresh(q, j)
    BY <1>2 DEF Begins
  <2>2. j # 1
    BY <2>1
  <2>3. j > 1
    BY <2>2
  <2> QED BY <1>6, <2>1, <2>3
<1>10. ~Up(q, 1) \/ l = "Down" => QueuedIn(r, l)
  BY <1>7, <1>8, <1>9 DEF QueuedIn
<1>11. ASSUME Returns(q), NEW i \in 1 .. m + 1, Gone(q, i), NEW n PROVE ~QuietIn(r) /\ HeardIn(r, n)
  <2>1. PICK j \in 1 .. m + 1 : j > i /\ Up(q, j) /\ Fresh(q, j)
    BY <1>2, <1>11 DEF Returns
  <2>2. j > 1
    BY <2>1
  <2>3. j - 1 \in 1 .. m /\ Up(r, j - 1) /\ Fresh(r, j - 1)
    BY <1>6, <2>1, <2>2
  <2>4. Promises(r, j - 1)
    BY <2>3 DEF Promises
  <2> QED BY <1>2, <2>3, <2>4 DEF QuietIn, HeardIn
<1>12. ASSUME l # "Down" PROVE QueuedIn(r, "Authed") /\ \A n \in BOOLEAN : n => HeardIn(r, n)
  <2>1. Returns(q)
    BY <1>12 DEF QueuedIn
  <2>2. CASE NoneGone(q)
    <3>1. NoneGone(r)
      BY <1>2, <1>3, <2>2 DEF NoneGone
    <3> QED BY <1>7, <2>1, <3>1 DEF QueuedIn, HeardIn
  <2>3. CASE ~NoneGone(q)
    <3>1. PICK i \in 1 .. m + 1 : Gone(q, i)
      BY <1>2, <2>3 DEF NoneGone
    <3> QED BY <1>7, <1>11, <2>1, <3>1 DEF QueuedIn
  <2> QED BY <2>2, <2>3
<1>13. ASSUME l # "Down", Gone(q, 1) PROVE ~QuietIn(r) /\ \A n : HeardIn(r, n)
  <2>1. Returns(q) /\ 1 \in 1 .. m + 1
    BY <1>13 DEF QueuedIn
  <2> QED BY <1>11, <1>13, <2>1
<1>14. ASSUME l = "Down", Up(q, 1) PROVE ~QuietIn(r)
  <2>1. Ends(q) /\ 1 \in 1 .. m + 1
    BY <1>14 DEF QueuedIn
  <2>2. PICK j \in 1 .. m + 1 : j > 1 /\ Gone(q, j)
    BY <1>2, <1>14, <2>1 DEF Ends
  <2>3. j - 1 \in 1 .. m /\ Gone(r, j - 1)
    BY <1>3, <1>4, <2>2
  <2> QED BY <1>2, <2>3 DEF QuietIn
<1>15. ASSUME ~Up(q, 1), ~Gone(q, 1), QuietIn(r) PROVE QuietIn(q)
  <2> SUFFICES ASSUME NEW i \in 1 .. m + 1 PROVE ~Up(q, i) /\ ~Gone(q, i)
    BY <1>2 DEF QuietIn
  <2>1. CASE i = 1
    BY <1>15, <2>1
  <2>2. CASE i # 1
    <3>1. i - 1 \in 1 .. m /\ i - 1 + 1 = i
      BY <2>2
    <3> QED BY <1>2, <1>3, <1>15, <3>1 DEF QuietIn
  <2> QED BY <2>1, <2>2
<1>16. ASSUME NEW n \in BOOLEAN, ~Up(q, 1), ~Gone(q, 1), HeardIn(q, n)
       PROVE  HeardIn(r, n \/ q[1][1] = "circuitEstablished")
  <2>1. CASE n /\ NoneGone(q)
    <3>1. NoneGone(r)
      BY <1>2, <1>3, <2>1 DEF NoneGone
    <3> QED BY <2>1, <3>1 DEF HeardIn
  <2>2. CASE \E i \in 1 .. m + 1 : Promises(q, i)
    <3>1. PICK i \in 1 .. m + 1 : Promises(q, i)
      BY <2>2
    <3>2. CASE i = 1
      <4>1. q[1][1] = "circuitEstablished" /\ Fresh(q, 1)
        BY <1>16, <3>1, <3>2 DEF Promises
      <4>2. NoneGone(r)
        <5> SUFFICES ASSUME NEW j \in 1 .. m PROVE ~Gone(r, j)
          BY <1>2 DEF NoneGone
        <5>1. j + 1 \in 1 .. m + 1 /\ j + 1 > 1
          OBVIOUS
        <5> QED BY <1>2, <1>3, <4>1, <5>1 DEF Fresh
      <4> QED BY <4>1, <4>2 DEF HeardIn
    <3>3. CASE i # 1
      <4>1. i - 1 \in 1 .. m /\ i - 1 + 1 = i
        BY <3>3
      <4>2. Promises(r, i - 1)
        BY <1>2, <1>3, <1>5, <3>1, <4>1 DEF Promises
      <4> QED BY <1>2, <4>1, <4>2 DEF HeardIn
    <3> QED BY <3>2, <3>3
  <2> QED BY <1>2, <1>16, <2>1, <2>2 DEF HeardIn
<1> QED BY <1>2, <1>10, <1>12, <1>13, <1>14, <1>15, <1>16
------------------------------------------------------------------------------
(* The inductive invariant *)

\* When nothing more will be said of the connection, the newest word on Tor is right.
Told == QuietIn(signals) => Tells(items, torLink = "Authed")

\* Tor tells of its circuits only who asked, and an established circuit that it told of, or
\* that was there when the connection was made, is noticed.
Heard ==
    /\ subscribed => torLink = "Authed"
    /\ torLink # "Down" /\ established /\ ~gap => HeardIn(signals, noticed)

\* The first accepted descriptor of a connection squelches the others.
Counted ==
    /\ online = 1 => squelch
    /\ accepted => squelch
    /\ initialised /\ squelch => online = 1

StatusInv == StatusType /\ QueuedIn(signals, torLink) /\ Told /\ Heard /\ Counted

LEMMA InitStatus == StatusInit => StatusInv
<1> SUFFICES ASSUME StatusInit PROVE StatusInv
  OBVIOUS
<1>1. /\ signals = <<>> /\ items = <<>> /\ slots = <<>> /\ torLink = "Down" /\ subscribed = FALSE
      /\ limit \in Limits /\ squelch \in BOOLEAN /\ online = 0 /\ accepted = FALSE
      /\ initialised = FALSE
  BY DEF StatusInit
<1>2. LinkType
  <2>1. peer \in [version : Versions, liberal : BOOLEAN]
    BY DEF StatusInit, Versions
  <2> QED BY <2>1 DEF StatusInit, LinkType
<1>3. ListType
  <2>1. limit \in Nat /\ items \in Seq(Words) /\ Len(items) = 0
    BY <1>1, StatusAssumption
  <2> QED BY <1>1, <2>1 DEF ListType
<1>4. WindowType
  <2>1. signals \in Seq(SignalSet) /\ slots \in Seq(Slots)
    BY <1>1
  <2> QED BY <2>1 DEF StatusInit, WindowType
<1>5. QueuedIn(signals, torLink)
  BY <1>1 DEF QueuedIn, Ends
<1>6. Told /\ Heard /\ Counted
  BY <1>1 DEF Told, Tells, Heard, Counted
<1> QED BY <1>2, <1>3, <1>4, <1>5, <1>6 DEF StatusInv, StatusType

\* A step that leaves alone what these are about.
LEMMA CountedStays ==
    ASSUME Counted, UNCHANGED <<online, squelch, accepted, initialised>>
    PROVE  Counted'
BY DEF Counted

------------------------------------------------------------------------------
(* What Tor does *)

LEMMA ReportsStep ==
    ASSUME StatusInv, NEW e \in Reported, Reports(e)
    PROVE  StatusInv'
<1>1. /\ torLink # "Down" /\ Post(e) /\ e \in Events
      /\ UNCHANGED <<torLink, subscribed, peer, connects, slots, limit, items, squelch, warned, noticed,
                     online, accepted, initialised>>
  BY StatusAssumption DEF Reports, list, said
<1>2. /\ established' = CASE e[1] = "CIRCUIT_ESTABLISHED" -> TRUE
                          [] e[1] = "CIRCUIT_NOT_ESTABLISHED" -> FALSE
                          [] OTHER -> established
      /\ gap' = (gap \/ (established' /\ ~established /\ ~subscribed))
  BY DEF Reports
<1>3. StatusType
  BY DEF StatusInv
<1>4. signals \in Seq(SignalSet)
  BY <1>3 DEF StatusType, WindowType
<1>5. /\ signals' \in Seq(SignalSet) /\ QueuedIn(signals', torLink)
      /\ QuietIn(signals') => QuietIn(signals)
      /\ HeardIn(signals, noticed) => HeardIn(signals', noticed)
      /\ e[1] = "CIRCUIT_ESTABLISHED" /\ subscribed => HeardIn(signals', noticed)
  <2>1. CASE /\ signals' = signals /\ (e[1] = "CIRCUIT_ESTABLISHED" => subscribed # TRUE)
    BY <1>4, <2>1 DEF StatusInv
  <2>2. CASE \E s \in Posted : /\ signals' = Append(signals, s)
                               /\ e[1] = "CIRCUIT_ESTABLISHED" => s[1] = "circuitEstablished"
    <3>1. PICK s \in Posted : /\ signals' = Append(signals, s)
                              /\ e[1] = "CIRCUIT_ESTABLISHED" => s[1] = "circuitEstablished"
      BY <2>2
    <3>2. QueuedIn(signals, torLink)
      BY DEF StatusInv
    <3> QED BY <1>4, <3>1, <3>2, SignalPosted
  <2> QED BY <1>1, <1>4, <2>1, <2>2, PostIs
<1>6. StatusType'
  <2>1. established' \in BOOLEAN /\ gap' \in BOOLEAN
    BY <1>2, <1>3 DEF StatusType, LinkType
  <2>2. LinkType'
    BY <1>1, <1>3, <2>1 DEF StatusType, LinkType
  <2>3. ListType' /\ WindowType'
    BY <1>1, <1>3, <1>5 DEF StatusType, ListType, WindowType
  <2> QED BY <2>2, <2>3 DEF StatusType
<1>7. QueuedIn(signals', torLink')
  BY <1>1, <1>5
<1>8. Told'
  BY <1>1, <1>5 DEF StatusInv, Told
<1>9. Heard'
  <2>1. subscribed' => torLink' = "Authed"
    BY <1>1 DEF StatusInv, Heard
  <2>2. ASSUME established', ~gap' PROVE HeardIn(signals', noticed)
    <3>1. ~gap
      BY <1>2, <2>2
    <3>2. CASE established
      BY <1>1, <1>5, <3>1, <3>2 DEF StatusInv, Heard
    <3>3. CASE ~established
      <4>1. e[1] = "CIRCUIT_ESTABLISHED" /\ subscribed
        BY <1>2, <2>2, <3>3
      <4> QED BY <1>5, <4>1
    <3> QED BY <3>2, <3>3
  <2> QED BY <1>1, <2>1, <2>2 DEF Heard
<1>10. Counted'
  BY <1>1, CountedStays DEF StatusInv
<1> QED BY <1>6, <1>7, <1>8, <1>9, <1>10 DEF StatusInv

LEMMA LinkUpStep ==
    ASSUME StatusInv, ConnectionMade
    PROVE  StatusInv'
<1>1. /\ torLink = "Down" /\ torLink' = "Up" /\ connects' = connects + 1 /\ established' \in BOOLEAN
      /\ signals' = Append(signals, <<"connected", "none">>)
      /\ UNCHANGED <<subscribed, gap, slots, limit, items, squelch, warned, noticed, online, accepted,
                     initialised>>
  BY DEF ConnectionMade, list, said
<1>2. peer' \in [version : Versions, liberal : BOOLEAN]
  BY DEF ConnectionMade
<1>3. StatusType
  BY DEF StatusInv
<1>4. signals \in Seq(SignalSet)
  BY <1>3 DEF StatusType, WindowType
<1>5. /\ signals' \in Seq(SignalSet) /\ ~QuietIn(signals') /\ QueuedIn(signals', "Up")
      /\ HeardIn(signals', noticed)
  <2>1. PICK s : s = <<"connected", "none">>
    OBVIOUS
  <2>2. s \in {<<"connected", "none">>, <<"disconnected", "none">>} /\ s[1] = "connected"
    BY <2>1
  <2> QED BY <1>1, <1>4, <2>1, <2>2, LinkPosted
<1>6. StatusType'
  <2>1. LinkType'
    BY <1>1, <1>2, <1>3 DEF StatusType, LinkType
  <2>2. ListType' /\ WindowType'
    BY <1>1, <1>3, <1>5 DEF StatusType, ListType, WindowType
  <2> QED BY <2>1, <2>2 DEF StatusType
<1>7. QueuedIn(signals', torLink') /\ Told'
  BY <1>1, <1>5 DEF Told
<1>8. Heard'
  BY <1>1, <1>5 DEF StatusInv, Heard
<1>9. Counted'
  BY <1>1, CountedStays DEF StatusInv
<1> QED BY <1>6, <1>7, <1>8, <1>9 DEF StatusInv

LEMMA LinkDownStep ==
    ASSUME StatusInv, ConnectionLost
    PROVE  StatusInv'
<1>1. /\ torLink' = "Down" /\ subscribed' = FALSE
      /\ signals' = Append(signals, <<"disconnected", "none">>)
      /\ UNCHANGED <<established, peer, connects, gap, slots, limit, items, squelch, warned, noticed, online,
                     accepted, initialised>>
  BY DEF ConnectionLost, list, said
<1>2. StatusType
  BY DEF StatusInv
<1>3. signals \in Seq(SignalSet)
  BY <1>2 DEF StatusType, WindowType
<1>4. signals' \in Seq(SignalSet) /\ ~QuietIn(signals') /\ QueuedIn(signals', "Down")
  <2>1. PICK s : s = <<"disconnected", "none">>
    OBVIOUS
  <2>2. s \in {<<"connected", "none">>, <<"disconnected", "none">>} /\ s[1] = "disconnected"
    BY <2>1
  <2> QED BY <1>1, <1>3, <2>1, <2>2, LinkPosted
<1>5. StatusType'
  <2>1. LinkType'
    BY <1>1, <1>2 DEF StatusType, LinkType
  <2>2. ListType' /\ WindowType'
    BY <1>1, <1>2, <1>4 DEF StatusType, ListType, WindowType
  <2> QED BY <2>1, <2>2 DEF StatusType
<1>6. QueuedIn(signals', torLink') /\ Told'
  BY <1>1, <1>4 DEF Told
<1>7. Heard'
  BY <1>1 DEF Heard
<1>8. Counted'
  BY <1>1, CountedStays DEF StatusInv
<1> QED BY <1>5, <1>6, <1>7, <1>8 DEF StatusInv
------------------------------------------------------------------------------
(* What the user and the main window do *)

LEMMA SetLimitStep ==
    ASSUME StatusInv, NEW n \in Limits, SetLimit(n)
    PROVE  StatusInv'
<1>1. /\ limit' = n /\ items' = IF Len(items) > n THEN Newest(n) ELSE items
      /\ UNCHANGED <<torLink, subscribed, established, peer, connects, gap, signals, slots, squelch, warned,
                     noticed, online, accepted, initialised>>
  BY DEF SetLimit, torStatus, said
<1>2. StatusType
  BY DEF StatusInv
<1>3. items \in Seq(Words) /\ n \in Nat /\ n # 0
  BY <1>2, StatusAssumption DEF StatusType, ListType
<1>4. items' \in Seq(Words) /\ Len(items') <= n /\ \A b : Tells(items, b) => Tells(items', b)
  <2>1. CASE Len(items) > n
    <3>1. PICK m \in Nat : m = Len(items)
      BY <1>3
    <3>2. PICK q : q = SubSeq(items, m - n + 1, m)
      OBVIOUS
    <3>3. items' = q /\ m > n
      BY <1>1, <2>1, <3>1, <3>2 DEF Newest
    <3>4. m - n + 1 \in 1 .. m + 1 /\ m \in m - n + 1 - 1 .. m /\ m - n + 1 \in Int
      BY <1>3, <3>3
    <3>5. \A i \in m - n + 1 .. m : items[i] \in Words
      BY <1>3, <3>1, <3>3, ElementOfSeq
    <3>6. /\ q \in Seq(Words) /\ Len(q) = n
          /\ \A i \in 1 .. n : q[i] = items[m - n + i]
      <4>1. n \in Nat /\ m \in Nat /\ DOMAIN items = 1 .. m
        BY <1>3, <3>1
      <4>2. \A i \in m - n + 1 .. m : i \in DOMAIN items
        BY <3>3, <4>1
      <4>3. q \in Seq(Words)
        BY <1>3, <3>2, <3>4, <3>5, <4>1, SubSeqProperties
      <4>4. Len(q) = n
        BY <1>3, <3>2, <3>3, <3>4, <4>1, SubSeqProperties
      <4>5. \A i \in 1 .. n : q[i] = items[m - n + 1 + i - 1]
        BY <1>3, <3>2, <3>3, <3>4, <4>1, SubSeqProperties
      <4>6. \A i \in 1 .. n : m - n + 1 + i - 1 = m - n + i
        BY <4>1
      <4> QED BY <4>3, <4>4, <4>5, <4>6
    <3>7. PICK k : k = m - n
      OBVIOUS
    <3>8. k \in Nat /\ Len(items) = Len(q) + k /\ \A i \in 1 .. Len(q) : q[i] = items[i + k]
      <4>1. k \in Nat /\ m = n + k
        BY <1>3, <3>1, <3>3, <3>7
      <4>2. \A i \in 1 .. n : m - n + i = i + k
        BY <1>3, <4>1
      <4> QED BY <1>3, <3>1, <3>6, <4>1, <4>2
    <3>9. ASSUME NEW b, Tells(items, b) PROVE Tells(q, b)
      BY <1>3, <3>6, <3>8, <3>9, ShortenedTells
    <3> QED BY <1>3, <3>3, <3>6, <3>9
  <2>2. CASE ~(Len(items) > n)
    BY <1>1, <1>3, <2>2
  <2> QED BY <2>1, <2>2
<1>5. StatusType'
  <2>1. LinkType' /\ WindowType'
    BY <1>1, <1>2 DEF StatusType, LinkType, WindowType
  <2>2. ListType'
    BY <1>1, <1>4 DEF ListType
  <2> QED BY <2>1, <2>2 DEF StatusType
<1>6. QueuedIn(signals', torLink')
  BY <1>1 DEF StatusInv
<1>7. Told'
  BY <1>1, <1>4 DEF StatusInv, Told
<1>8. Heard'
  BY <1>1 DEF StatusInv, Heard
<1>9. Counted'
  BY <1>1, CountedStays DEF StatusInv
<1> QED BY <1>5, <1>6, <1>7, <1>8, <1>9 DEF StatusInv

LEMMA ClearListStep ==
    ASSUME StatusInv, ClearList
    PROVE  StatusInv'
<1>1. /\ items' = <<>>
      /\ UNCHANGED <<torLink, subscribed, established, peer, connects, gap, signals, slots, limit, squelch,
                     warned, noticed, online, accepted, initialised>>
  BY DEF ClearList, torStatus, said
<1>2. StatusType
  BY DEF StatusInv
<1>3. limit \in Nat
  BY <1>2, StatusAssumption DEF StatusType, ListType
<1>4. items' \in Seq(Words) /\ Len(items') <= limit
  BY <1>1, <1>3
<1>5. StatusType'
  <2>1. LinkType' /\ WindowType'
    BY <1>1, <1>2 DEF StatusType, LinkType, WindowType
  <2>2. ListType'
    BY <1>1, <1>2, <1>4 DEF StatusType, ListType
  <2> QED BY <2>1, <2>2 DEF StatusType
<1>6. QueuedIn(signals', torLink') /\ Heard'
  BY <1>1 DEF StatusInv, Heard
<1>7. Told'
  BY <1>1 DEF Told, Tells
<1>8. Counted'
  BY <1>1, CountedStays DEF StatusInv
<1> QED BY <1>5, <1>6, <1>7, <1>8 DEF StatusInv

\* A slot that waits for its box, and one that goes on.
LEMMA SlotOpened ==
    ASSUME slots \in Seq(Slots), NEW s \in Slots
    PROVE  Append(slots, s) \in Seq(Slots)
BY Pushed

LEMMA SlotClosed ==
    ASSUME slots \in Seq(Slots), slots # <<>>
    PROVE  SlotsBeneath \in Seq(Slots)
BY Popped DEF SlotsBeneath, Front

\* A step that opens or closes boxes, and of which Tor learns that its events are wanted.
LEMMA SlotsStay ==
    ASSUME StatusInv, slots' \in Seq(Slots), warned' \in BOOLEAN,
           subscribed' \in BOOLEAN, subscribed' => torLink = "Authed",
           UNCHANGED <<torLink, established, peer, connects, gap, signals, limit, items, squelch, noticed,
                       online, accepted, initialised>>
    PROVE  StatusInv'
<1>1. StatusType
  BY DEF StatusInv
<1>2. LinkType' /\ ListType' /\ WindowType'
  BY <1>1 DEF StatusType, LinkType, ListType, WindowType
<1>3. QueuedIn(signals', torLink') /\ Told' /\ Heard'
  BY DEF StatusInv, Told, Heard
<1>4. Counted'
  BY CountedStays DEF StatusInv
<1> QED BY <1>2, <1>3, <1>4 DEF StatusInv, StatusType

LEMMA SubscribeStep ==
    ASSUME StatusInv, Subscribe
    PROVE  StatusInv'
<1>1. /\ slots # <<>> /\ subscribed' = (torLink = "Authed")
      /\ UNCHANGED <<torLink, established, peer, connects, gap, signals, limit, items, squelch, warned,
                     noticed, online, accepted, initialised>>
  BY DEF Subscribe, list, said
<1>2. slots \in Seq(Slots) /\ warned \in BOOLEAN
  BY DEF StatusInv, StatusType, WindowType
<1>3. PICK b : b = SlotsBeneath
  OBVIOUS
<1>4. b \in Seq(Slots) /\ "version" \in Slots
  BY <1>1, <1>2, <1>3, SlotClosed DEF Slots
<1>5. slots' = b \/ slots' = Append(b, "version")
  BY <1>3 DEF Subscribe, Warn
<1>6. slots' \in Seq(Slots)
  BY <1>4, <1>5, Pushed
<1>7. subscribed' \in BOOLEAN /\ (subscribed' => torLink = "Authed")
  BY <1>1
<1> QED BY <1>1, <1>2, <1>6, <1>7, SlotsStay

LEMMA BoxAnsweredStatus ==
    ASSUME StatusInv, WarningAnswered
    PROVE  StatusInv'
<1>1. /\ slots # <<>> /\ slots' = SlotsBeneath /\ warned' = (warned \/ TopSlot = "version")
      /\ UNCHANGED <<torLink, subscribed, established, peer, connects, gap, signals, limit, items, squelch,
                     noticed, online, accepted, initialised>>
  BY DEF WarningAnswered, list, said, torStatus
<1>2. slots \in Seq(Slots) /\ subscribed \in BOOLEAN /\ (subscribed => torLink = "Authed")
  BY DEF StatusInv, StatusType, WindowType, LinkType, Heard
<1>3. slots' \in Seq(Slots) /\ warned' \in BOOLEAN
  BY <1>1, <1>2, SlotClosed
<1> QED BY <1>1, <1>2, <1>3, SlotsStay

------------------------------------------------------------------------------
(* Signals that the GUI thread takes *)

\* What remains of the queue.
LEMMA HeadTaken ==
    ASSUME StatusInv, signals # <<>>, signals' = Tail(signals)
    PROVE  /\ signals' \in Seq(SignalSet) /\ Head(signals) = signals[1] /\ signals[1] \in SignalSet
           /\ ~Up(signals, 1) \/ torLink = "Down" => QueuedIn(signals', torLink)
           /\ torLink # "Down" => /\ QueuedIn(signals', "Authed")
                                /\ \A n \in BOOLEAN : n => HeardIn(signals', n)
           /\ torLink = "Down" /\ Up(signals, 1) => ~QuietIn(signals')
           /\ torLink # "Down" /\ Gone(signals, 1) =>
                  ~QuietIn(signals') /\ \A n : HeardIn(signals', n)
           /\ ~Up(signals, 1) /\ ~Gone(signals, 1) /\ QuietIn(signals') => QuietIn(signals)
           /\ \A n \in BOOLEAN : ~Up(signals, 1) /\ ~Gone(signals, 1) /\ HeardIn(signals, n) =>
                  HeardIn(signals', n \/ signals[1][1] = "circuitEstablished")
<1>1. signals \in Seq(SignalSet) /\ QueuedIn(signals, torLink)
  BY DEF StatusInv, StatusType, WindowType
<1>2. PICK r : r = Tail(signals)
  OBVIOUS
<1>3. signals' = r
  BY <1>2
<1> QED BY <1>1, <1>2, <1>3, SignalTaken

LEMMA ConnectedStep ==
    ASSUME StatusInv, HandleConnected
    PROVE  StatusInv'
<1>1. /\ signals # <<>> /\ Head(signals)[1] = "connected" /\ signals' = Tail(signals)
      /\ UNCHANGED <<subscribed, established, peer, connects, limit, squelch, warned, online, accepted,
                     initialised>>
  BY DEF HandleConnected, Delivered
<1>2. Up(signals, 1) /\ ~Gone(signals, 1)
  BY <1>1, HeadTaken DEF Up, Gone
<1>3. StatusType
  BY DEF StatusInv
<1>4. Counted'
  BY <1>1, CountedStays DEF StatusInv
<1>5. CASE torLink = "Down"
  <2>1. UNCHANGED <<torLink, gap, slots, items, noticed>>
    BY <1>5 DEF HandleConnected
  <2>2. StatusType'
    <3>1. LinkType' /\ ListType'
      BY <1>1, <1>3, <2>1 DEF StatusType, LinkType, ListType
    <3>2. WindowType'
      BY <1>1, <1>3, <2>1, HeadTaken DEF StatusType, WindowType
    <3> QED BY <3>1, <3>2 DEF StatusType
  <2>3. QueuedIn(signals', torLink')
    BY <1>1, <1>5, <2>1, HeadTaken
  <2>4. Told'
    BY <1>1, <1>2, <1>5, HeadTaken DEF Told
  <2>5. Heard'
    BY <1>1, <1>5, <2>1 DEF StatusInv, Heard
  <2> QED BY <1>4, <2>2, <2>3, <2>4, <2>5 DEF StatusInv
<1>6. CASE torLink # "Down"
  <2>1. /\ torLink' = "Authed" /\ slots' = Append(slots, "auth") /\ gap' = FALSE
        /\ noticed' = (Missed # {})
    BY <1>6 DEF HandleConnected, Authenticated
  <2>2. PICK a : a = Added(items, "Running")
    OBVIOUS
  <2>3. PICK b : b = AddedIfAny(a, Missed)
    OBVIOUS
  <2>4. items' = AddedIfAny(b, OutOfDate)
    BY <1>6, <2>2, <2>3 DEF HandleConnected, Authenticated, Running
  <2>5. limit \in Limits /\ ListFits(items)
    BY <1>3 DEF StatusType, ListType, ListFits
  <2>6. ListFits(a) /\ Tells(a, TRUE)
    BY <2>2, <2>5, AddedItem
  <2>7. /\ "Running" \notin Missed /\ "NotRunning" \notin Missed
        /\ "Running" \notin OutOfDate /\ "NotRunning" \notin OutOfDate
        /\ Missed # {} <=> established
    BY <1>3 DEF Missed, OutOfDate
  <2>8. ListFits(b) /\ Tells(b, TRUE)
    BY <2>3, <2>5, <2>6, <2>7, AddedAny
  <2>9. PICK c : c = AddedIfAny(b, OutOfDate)
    OBVIOUS
  <2>10. ListFits(c) /\ Tells(c, TRUE) /\ items' = c
    BY <2>4, <2>5, <2>7, <2>8, <2>9, AddedAny
  <2>11. noticed' \in BOOLEAN /\ (noticed' <=> established)
    BY <2>1, <2>7
  <2>12. StatusType'
    <3>1. LinkType'
      BY <1>1, <1>3, <2>1 DEF StatusType, LinkType
    <3>2. ListType'
      BY <1>1, <2>5, <2>10 DEF ListType, ListFits
    <3>3. slots' \in Seq(Slots)
      BY <1>3, <2>1, SlotOpened DEF StatusType, WindowType, Slots
    <3>4. WindowType'
      BY <1>1, <1>3, <2>11, <3>3, HeadTaken DEF StatusType, WindowType
    <3> QED BY <3>1, <3>2, <3>4 DEF StatusType
  <2>13. QueuedIn(signals', torLink')
    BY <1>1, <1>6, <2>1, HeadTaken
  <2>14. Told'
    BY <2>1, <2>10 DEF Told
  <2>15. Heard'
    <3>1. subscribed' => torLink' = "Authed"
      BY <2>1
    <3>2. ASSUME established' PROVE HeardIn(signals', noticed')
      <4>1. noticed' \in BOOLEAN /\ noticed'
        BY <1>1, <2>11, <3>2
      <4>2. \A n \in BOOLEAN : n => HeardIn(signals', n)
        BY <1>1, <1>6, HeadTaken
      <4> QED BY <4>1, <4>2
    <3> QED BY <3>1, <3>2 DEF Heard
  <2> QED BY <1>4, <2>12, <2>13, <2>14, <2>15 DEF StatusInv
<1> QED BY <1>5, <1>6

LEMMA DisconnectedStep ==
    ASSUME StatusInv, HandleDisconnected
    PROVE  StatusInv'
<1>1. /\ signals # <<>> /\ Head(signals)[1] = "disconnected" /\ signals' = Tail(signals)
      /\ items' = Added(items, "NotRunning")
      /\ squelch' = FALSE /\ noticed' = FALSE /\ online' = 0 /\ accepted' = FALSE
      /\ initialised' = TRUE
      /\ UNCHANGED <<torLink, subscribed, established, peer, connects, gap, slots, limit, warned>>
  BY DEF HandleDisconnected, Delivered, NotRunning, ResetSquelch, torStatus
<1>2. Gone(signals, 1) /\ ~Up(signals, 1)
  BY <1>1, HeadTaken DEF Up, Gone
<1>3. StatusType
  BY DEF StatusInv
<1>4. limit \in Limits /\ ListFits(items)
  BY <1>3 DEF StatusType, ListType, ListFits
<1>5. PICK a : a = Added(items, "NotRunning")
  OBVIOUS
<1>6. ListFits(a) /\ Tells(a, FALSE)
  BY <1>4, <1>5, AddedItem
<1>7. StatusType'
  <2>1. LinkType'
    BY <1>1, <1>3 DEF StatusType, LinkType
  <2>2. ListType'
    BY <1>1, <1>4, <1>5, <1>6 DEF ListType, ListFits
  <2>3. WindowType'
    BY <1>1, <1>3, HeadTaken DEF StatusType, WindowType
  <2> QED BY <2>1, <2>2, <2>3 DEF StatusType
<1>8. QueuedIn(signals', torLink')
  BY <1>1, <1>2, HeadTaken
<1>9. Told'
  <2>1. torLink # "Down" => ~QuietIn(signals')
    BY <1>1, <1>2, HeadTaken
  <2>2. torLink = "Down" => Tells(a, torLink = "Authed")
    BY <1>6 DEF Tells
  <2> QED BY <1>1, <1>5, <2>1, <2>2 DEF Told
<1>10. Heard'
  <2>1. torLink # "Down" => HeardIn(signals', noticed')
    BY <1>1, <1>2, HeadTaken
  <2> QED BY <1>1, <2>1 DEF StatusInv, Heard
<1>11. Counted'
  BY <1>1 DEF Counted
<1> QED BY <1>7, <1>8, <1>9, <1>10, <1>11 DEF StatusInv

LEMMA EventStep ==
    ASSUME StatusInv, HandleSignal
    PROVE  StatusInv'
<1>1. /\ signals # <<>> /\ Head(signals)[1] \notin {"connected", "disconnected"}
      /\ signals' = Tail(signals)
      /\ UNCHANGED <<torLink, subscribed, established, peer, connects, gap, limit, warned, initialised>>
  BY DEF HandleSignal, torStatus
<1>2. StatusType
  BY DEF StatusInv
<1>3. PICK s : s = Head(signals)
  OBVIOUS
<1>4. s = signals[1] /\ s \in Posted /\ ~Up(signals, 1) /\ ~Gone(signals, 1)
  BY <1>1, <1>3, HeadTaken DEF Up, Gone, SignalSet
<1>5. PICK T : T = Titles(s, squelch, peer.liberal)
  OBVIOUS
<1>6. /\ items' = AddedIfAny(items, T)
      /\ noticed' = (noticed \/ s[1] = "circuitEstablished")
      /\ accepted' = (accepted \/ Announced(s))
      /\ squelch' = (squelch \/ Announced(s))
      /\ online' = online + (IF "RelayOnline" \in T THEN 1 ELSE 0)
  BY <1>3, <1>5 DEF HandleSignal, Announced
<1>7. slots' = slots \/ slots' = Append(slots, "version") \/ slots' = Append(slots, "port")
  <2>1. \/ Warn(slots)
        \/ slots' = Append(slots, "port")
        \/ slots' = slots
    BY DEF HandleSignal
  <2> QED BY <2>1 DEF Warn
<1>8. slots' \in Seq(Slots)
  BY <1>2, <1>7, SlotOpened DEF StatusType, WindowType, Slots
<1>9. /\ "Running" \notin T /\ "NotRunning" \notin T
      /\ "RelayOnline" \in T <=> Announced(s) /\ ~squelch
  BY <1>2, <1>4, <1>5, TitlesOf DEF StatusType, WindowType
<1>10. PICK a : a = AddedIfAny(items, T)
  OBVIOUS
<1>11. limit \in Limits /\ ListFits(items)
  BY <1>2 DEF StatusType, ListType, ListFits
<1>12. ListFits(a) /\ \A b : Tells(items, b) => Tells(a, b)
  BY <1>9, <1>10, <1>11, AddedAny
<1>13. squelch \in BOOLEAN /\ noticed \in BOOLEAN /\ accepted \in BOOLEAN /\ online \in {0, 1}
  BY <1>2 DEF StatusType, WindowType
<1>14. squelch' \in BOOLEAN /\ noticed' \in BOOLEAN /\ accepted' \in BOOLEAN
  BY <1>6, <1>13
<1>15. /\ online' \in {0, 1}
       /\ Counted'
  <2>1. online = 1 => squelch
    BY DEF StatusInv, Counted
  <2>2. CASE Announced(s) /\ ~squelch
    <3>1. online = 0 /\ "RelayOnline" \in T /\ squelch'
      BY <1>6, <1>9, <1>13, <2>1, <2>2
    <3>2. online' = 1
      BY <1>6, <3>1
    <3> QED BY <3>1, <3>2 DEF Counted
  <2>3. CASE ~(Announced(s) /\ ~squelch)
    <3>1. online' = online
      BY <1>6, <1>9, <1>13, <2>3
    <3>2. (squelch' <=> squelch) /\ (accepted' => accepted \/ squelch)
      BY <1>6, <2>3
    <3> QED BY <1>1, <1>13, <3>1, <3>2 DEF StatusInv, Counted
  <2> QED BY <2>2, <2>3
<1>16. StatusType'
  <2>1. LinkType'
    BY <1>1, <1>2 DEF StatusType, LinkType
  <2>2. ListType'
    BY <1>1, <1>6, <1>10, <1>11, <1>12 DEF ListType, ListFits
  <2>3. WindowType'
    BY <1>1, <1>2, <1>8, <1>14, <1>15, HeadTaken DEF StatusType, WindowType
  <2> QED BY <2>1, <2>2, <2>3 DEF StatusType
<1>17. QueuedIn(signals', torLink')
  BY <1>1, <1>4, HeadTaken
<1>18. Told'
  <2>1. QuietIn(signals') => QuietIn(signals)
    BY <1>1, <1>4, HeadTaken
  <2>2. QuietIn(signals) => Tells(a, torLink = "Authed")
    BY <1>12 DEF StatusInv, Told
  <2> QED BY <1>1, <1>6, <1>10, <2>1, <2>2 DEF Told
<1>19. Heard'
  <2>1. HeardIn(signals, noticed) => HeardIn(signals', noticed')
    BY <1>1, <1>4, <1>6, <1>13, HeadTaken
  <2> QED BY <1>1, <2>1 DEF StatusInv, Heard
<1> QED BY <1>15, <1>16, <1>17, <1>18, <1>19 DEF StatusInv

------------------------------------------------------------------------------
(* Every step, and what the invariant means *)

LEMMA StepStatus ==
    StatusInv /\ [StatusNext]_statusVars => StatusInv'
<1> SUFFICES ASSUME StatusInv, [StatusNext]_statusVars PROVE StatusInv'
  OBVIOUS
<1>1. CASE \E e \in Reported : Reports(e)
  BY <1>1, ReportsStep
<1>2. CASE ConnectionMade \/ ConnectionLost
  BY <1>2, LinkUpStep, LinkDownStep
<1>3. CASE (\E n \in Limits : SetLimit(n)) \/ ClearList
  BY <1>3, SetLimitStep, ClearListStep
<1>4. CASE HandleConnected
  BY <1>4, ConnectedStep
<1>5. CASE Subscribe
  BY <1>5, SubscribeStep
<1>6. CASE HandleDisconnected
  BY <1>6, DisconnectedStep
<1>7. CASE HandleSignal
  BY <1>7, EventStep
<1>8. CASE WarningAnswered
  BY <1>8, BoxAnsweredStatus
<1>9. CASE UNCHANGED statusVars
  <2>1. UNCHANGED <<torLink, subscribed, established, peer, connects, gap, signals, slots, limit, items, squelch,
                    warned, noticed, online, accepted, initialised>>
    BY <1>9 DEF statusVars, torStatus, list, said
  <2>2. slots' \in Seq(Slots) /\ warned' \in BOOLEAN /\ subscribed' \in BOOLEAN
        /\ (subscribed' => torLink = "Authed")
    BY <2>1 DEF StatusInv, StatusType, WindowType, LinkType, Heard
  <2> QED BY <2>1, <2>2, SlotsStay
<1> QED BY <1>1, <1>2, <1>3, <1>4, <1>5, <1>6, <1>7, <1>8, <1>9 DEF StatusNext

LEMMA StatusMeans ==
    ASSUME StatusInv
    PROVE  /\ StatusType /\ LastWordIsRight /\ EstablishedIsNoticed
           /\ OnlineOnce
<1>1. StatusType
  BY DEF StatusInv
<1>2. LastWordIsRight
  <2>1. Len(items) <= limit
    BY <1>1 DEF StatusType, ListType
  <2>2. signals = <<>> => Tells(items, torLink = "Authed")
    BY DEF StatusInv, Told, QuietIn
  <2>3. \A i : LastWord(i) => LastIn(items, i)
    BY DEF LastWord, LastIn, Running, NotRunning
  <2> QED BY <2>1, <2>2, <2>3 DEF LastWordIsRight, Settled, Tells, Running
<1>3. EstablishedIsNoticed
  <2>1. signals = <<>> /\ HeardIn(signals, noticed) => noticed
    BY DEF HeardIn
  <2> QED BY <2>1 DEF StatusInv, Heard, EstablishedIsNoticed, Settled
<1>4. OnlineOnce
  <2>1. online <= 1 /\ (accepted /\ initialised => online = 1)
    BY <1>1 DEF StatusType, WindowType, StatusInv, Counted
  <2> QED BY <2>1 DEF OnlineOnce
<1> QED BY <1>1, <1>2, <1>3, <1>4

\* The variables have their types.
THEOREM StatusTypeCorrect == StatusSpec => []StatusType
BY InitStatus, StepStatus, StatusMeans, PTL DEF StatusSpec

\* However connections end and begin while signals wait for the slots of others, and however
\* the list is shortened and cleared, its newest word on whether Tor runs becomes right.
THEOREM NewestWordIsRight == StatusSpec => []LastWordIsRight
BY InitStatus, StepStatus, StatusMeans, PTL DEF StatusSpec

\* A user is told of an established circuit, whether Tor reports it or had it before.
THEOREM CircuitsAreNoticed == StatusSpec => []EstablishedIsNoticed
BY InitStatus, StepStatus, StatusMeans, PTL DEF StatusSpec

\* A relay is said to be online once for a connection that accepts its descriptor.
THEOREM RelaysAreOnlineOnce == StatusSpec => []OnlineOnce
BY InitStatus, StepStatus, StatusMeans, PTL DEF StatusSpec

==============================================================================
