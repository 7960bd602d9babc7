--------------------------- MODULE Services_proofs ---------------------------
(***************************************************************************)
(* Proofs about Services: what is ticked is what will be published, a      *)
(* directory that is used twice is explained, and no service is taken away *)
(* from Tor unknowingly, for any directories and options, any number of    *)
(* rows and edits, and however often the dialog is shown and saved.        *)
(***************************************************************************)
EXTENDS Services, Lists_proofs

AnyDir == Dirs \cup {NoDir}

\* What getServices() may take for the options of a service: those that were saved, or,
\* where a "#" has shifted the fields, the one before.
Enabling == {"\\x1", "\\0"}
AnyOptions == Options \cup {""} \cup Enabling

Row == [dir : AnyDir, kept : AnyDir, box : BOOLEAN, fixed : BOOLEAN]
Service == [dir : AnyDir, enabled : BOOLEAN, opts : AnyOptions]
Text == {p[1] \o <<p[2], p[3]>> : p \in Dirs \X Enabling \X AnyOptions}
Cell == [row : Nat, column : Columns \cup {"none"}]

TypeOK ==
    /\ link \in {"Down", "Authed"}
    /\ tor \in Seq(Published)
    /\ stored \in Seq(Text)
    /\ shown \in BOOLEAN
    /\ rows \in Seq(Row) /\ Len(rows) <= MaxRows
    /\ DOMAIN services \subseteq 1 .. MaxRows
    /\ services \in [DOMAIN services -> Service]
    /\ torServices \subseteq Dirs
    /\ cell \in Cell
    /\ cell = NoCell \/ cell \in Cells(Len(rows))
    /\ buttons \subseteq {"remove", "browse"}
    /\ shows \in 0 .. MaxShows /\ edits \in 0 .. MaxEdits
    /\ dropped \subseteq Dirs /\ erased \subseteq Dirs
    /\ blind \in BOOLEAN /\ browsed \in BOOLEAN

------------------------------------------------------------------------------
(* The text of the settings file *)

Fields == Names \cup {"rest"} \cup AnyOptions

LEMMA Bounds == MaxRows \in Nat /\ MaxEdits \in Nat /\ MaxShows \in Nat
<1>1. MaxRows \in Nat
  BY ServicesAssumption DEF ServicesAssumption
<1>2. MaxEdits \in Nat
  BY ServicesAssumption DEF ServicesAssumption
<1>3. MaxShows \in Nat
  BY ServicesAssumption DEF ServicesAssumption
<1> QED BY <1>1, <1>2, <1>3

LEMMA DirsAre ==
    ASSUME NEW d \in Dirs
    PROVE  /\ d \in Seq(Fields) /\ 1 <= Len(d) /\ Len(d) <= 2
           /\ d[1] \in Names /\ d # NoDir
           /\ d = <<d[1]>> \/ (d = <<d[1], "rest">> /\ d[1] \in HashNames)
<1>1. CASE d \in {<<n>> : n \in Names}
  <2>1. PICK n \in Names : d = <<n>>
    BY <1>1
  <2>2. Len(<<n>>) = 1 /\ <<n>> \in Seq(Fields) /\ <<n>>[1] = n
    BY DEF Fields
  <2> QED BY <2>1, <2>2 DEF NoDir
<1>2. CASE d \in {<<n, "rest">> : n \in HashNames}
  <2>1. PICK n \in HashNames : d = <<n, "rest">>
    BY <1>2
  <2>2. n \in Names
    BY ServicesAssumption DEF ServicesAssumption
  <2>3. Len(<<n, "rest">>) = 2 /\ <<n, "rest">> \in Seq(Fields) /\ <<n, "rest">>[1] = n
    BY <2>2 DEF Fields
  <2> QED BY <2>1, <2>2, <2>3 DEF NoDir
<1> QED BY <1>1, <1>2 DEF Dirs

LEMMA Joined ==
    ASSUME NEW S, NEW d \in Seq(S), NEW t \in Seq(S), Len(t) = 2, 1 <= Len(d), Len(d) <= 2
    PROVE  (d \o t)[1] = d[1] /\ \E i \in 1 .. 2 : (d \o t)[3] = t[i]
<1>1. \A i \in 1 .. Len(d) + Len(t) : (d \o t)[i] = IF i <= Len(d) THEN d[i] ELSE t[i - Len(d)]
  BY ConcatProperties
<1>2. 1 \in 1 .. Len(d) + Len(t) /\ 3 \in 1 .. Len(d) + Len(t)
  OBVIOUS
<1>3. /\ (d \o t)[1] = IF 1 <= Len(d) THEN d[1] ELSE t[1 - Len(d)]
      /\ (d \o t)[3] = IF 3 <= Len(d) THEN d[3] ELSE t[3 - Len(d)]
  BY <1>1, <1>2
<1>4. ~ (3 <= Len(d)) /\ 3 - Len(d) \in 1 .. 2
  OBVIOUS
<1> HIDE <1>1
<1> QED BY <1>3, <1>4

\* A text begins with the name of the directory, which is a directory of its own, and has a
\* third part.
LEMMA TextParts ==
    ASSUME NEW d \in Dirs, NEW e \in Enabling, NEW o \in AnyOptions
    PROVE  /\ (d \o <<e, o>>)[1] = d[1]
           /\ (d \o <<e, o>>)[3] \in AnyOptions
<1> DEFINE t == <<e, o>>
<1>1. t \in Seq(Fields) /\ Len(t) = 2 /\ \A i \in 1 .. 2 : t[i] \in AnyOptions
  <2>1. e \in AnyOptions /\ o \in AnyOptions
    BY DEF AnyOptions
  <2>2. t[1] = e /\ t[2] = o /\ Len(t) = 2
    OBVIOUS
  <2>3. t \in Seq(Fields)
    BY <2>1 DEF Fields
  <2> HIDE DEF t
  <2>4. \A i \in 1 .. 2 : i = 1 \/ i = 2
    OBVIOUS
  <2> QED BY <2>1, <2>2, <2>3, <2>4
<1>2. d \in Seq(Fields) /\ 1 <= Len(d) /\ Len(d) <= 2
  BY DirsAre
<1> HIDE DEF t
<1>3. (d \o t)[1] = d[1] /\ \E i \in 1 .. 2 : (d \o t)[3] = t[i]
  BY <1>1, <1>2, Joined
<1>4. (d \o t)[1] = d[1] /\ (d \o t)[3] \in AnyOptions
  BY <1>1, <1>3
<1> QED BY <1>4 DEF t

LEMMA TextIs ==
    ASSUME NEW t \in Text
    PROVE  /\ t[1] \in Names /\ <<t[1]>> \in Dirs
           /\ t[3] \in AnyOptions
<1>1. PICK p \in Dirs \X Enabling \X AnyOptions : t = p[1] \o <<p[2], p[3]>>
  BY DEF Text
<1>2. p[1] \in Dirs /\ p[2] \in Enabling /\ p[3] \in AnyOptions
  OBVIOUS
<1>3. t[1] = p[1][1] /\ p[1][1] \in Names /\ t[3] \in AnyOptions
  BY <1>1, <1>2, TextParts, DirsAre
<1> QED BY <1>3 DEF Dirs

\* A service with a directory is stored as a text that begins with its name.
LEMMA EncodedIs ==
    ASSUME NEW s \in Service, s.dir # NoDir
    PROVE  Encoded(s) \in Text /\ Encoded(s)[1] = s.dir[1] /\ s.dir \in Dirs
<1> DEFINE e == IF s.enabled THEN "\\x1" ELSE "\\0"
           p == <<s.dir, e, s.opts>>
<1>1. s.dir \in Dirs /\ s.opts \in AnyOptions /\ e \in Enabling
  BY DEF Service, AnyDir, Enabling
<1>2. Encoded(s) = s.dir \o <<e, s.opts>>
  BY DEF Encoded
<1> HIDE DEF e
<1>3. Encoded(s)[1] = s.dir[1]
  BY <1>1, <1>2, TextParts
<1>4. p \in Dirs \X Enabling \X AnyOptions /\ p[1] = s.dir /\ p[2] = e /\ p[3] = s.opts
  BY <1>1
<1> HIDE DEF p
<1>5. Encoded(s) \in Text
  <2>1. Encoded(s) = p[1] \o <<p[2], p[3]>>
    BY <1>2, <1>4
  <2> QED BY <1>4, <2>1 DEF Text
<1> QED BY <1>1, <1>3, <1>5

------------------------------------------------------------------------------
(* Loading *)

\* What Tor publishes, as it is loaded.
LEMMA FromTorIs ==
    ASSUME TypeOK
    PROVE  /\ FromTor \in Seq(Service)
           /\ \A i \in DOMAIN FromTor :
                 /\ i \in DOMAIN tor /\ FromTor[i].dir = tor[i].dir /\ FromTor[i].dir \in Dirs
                 /\ FromTor[i].enabled = TRUE
           /\ link = "Authed" => DOMAIN FromTor = DOMAIN tor
<1>1. CASE link = "Authed"
  <2>1. \A i \in 1 .. Len(tor) : tor[i] \in Published
    BY ElementOfSeq DEF TypeOK
  <2>2. \A i \in 1 .. Len(tor) :
           [dir |-> tor[i].dir, enabled |-> TRUE, opts |-> tor[i].opts] \in Service
    BY <2>1 DEF Published, Service, AnyDir, AnyOptions
  <2>3. /\ FromTor = [i \in 1 .. Len(tor) |->
                         [dir |-> tor[i].dir, enabled |-> TRUE, opts |-> tor[i].opts]]
        /\ Len(tor) \in Nat
    BY <1>1 DEF FromTor, TypeOK
  <2>4. FromTor \in Seq(Service)
    BY <2>2, <2>3
  <2>5. DOMAIN FromTor = 1 .. Len(tor) /\ DOMAIN tor = 1 .. Len(tor)
    BY <2>3 DEF TypeOK
  <2> QED BY <2>1, <2>3, <2>4, <2>5 DEF Published
<1>2. CASE link # "Authed"
  <2>1. FromTor = <<>>
    BY <1>2 DEF FromTor
  <2>2. <<>> \in Seq(Service) /\ DOMAIN <<>> = {}
    OBVIOUS
  <2> QED BY <1>2, <2>1, <2>2
<1> QED BY <1>1, <1>2

\* What the settings file holds, as it is loaded.
LEMMA GetServicesIs ==
    ASSUME TypeOK
    PROVE  /\ GetServices \in Seq(Service) /\ Len(GetServices) = Len(stored)
           /\ \A i \in 1 .. Len(stored) :
                 stored[i] \in Text /\ GetServices[i].dir = <<stored[i][1]>>
<1>1. \A i \in 1 .. Len(stored) : stored[i] \in Text
  BY ElementOfSeq DEF TypeOK
<1>2. ASSUME NEW i \in 1 .. Len(stored)
      PROVE  Decoded(stored[i], EverEnabled(i)) \in Service
  <2>1. <<stored[i][1]>> \in Dirs /\ stored[i][3] \in AnyOptions
    BY <1>1, TextIs
  <2>2. EverEnabled(i) \in BOOLEAN
    BY DEF EverEnabled
  <2> QED BY <2>1, <2>2 DEF Decoded, Service, AnyDir
<1>3. /\ Len(stored) \in Nat
      /\ GetServices = [i \in 1 .. Len(stored) |-> Decoded(stored[i], EverEnabled(i))]
  BY DEF GetServices, TypeOK
<1>4. GetServices \in Seq(Service) /\ Len(GetServices) = Len(stored)
  BY <1>2, <1>3
<1> QED BY <1>1, <1>3, <1>4 DEF Decoded

\* The complete list: first what Tor publishes, then what is stored and is not among it.
LEMMA CompleteListIs ==
    ASSUME TypeOK
    PROVE  /\ CompleteList \in Seq(Service)
           /\ \A i \in DOMAIN FromTor : i \in DOMAIN CompleteList /\ CompleteList[i] = FromTor[i]
           /\ \E f \in [DOMAIN CompleteList \ DOMAIN FromTor -> 1 .. Len(stored)] :
                 /\ \A a, b \in DOMAIN CompleteList \ DOMAIN FromTor : a # b => f[a] # f[b]
                 /\ \A a \in DOMAIN CompleteList \ DOMAIN FromTor :
                       /\ CompleteList[a].dir = <<stored[f[a]][1]>>
                       /\ \A i \in DOMAIN FromTor : FromTor[i].dir # CompleteList[a].dir
<1> DEFINE I == {i \in DOMAIN stored : ~IsServicePublished(GetServices[i], FromTor)}
           K == Kept(GetServices, I)
           n == Len(FromTor)
<1>1. FromTor \in Seq(Service) /\ GetServices \in Seq(Service) /\ Len(GetServices) = Len(stored)
  BY FromTorIs, GetServicesIs
<1>2. K \in Seq(Service) /\ \E f : Picks(GetServices, I, Len(stored), K, f)
  BY <1>1, KeptIsSubsequence
<1>3. PICK f : Picks(GetServices, I, Len(stored), K, f)
  BY <1>2
<1>4. CompleteList = FromTor \o K
  BY DEF CompleteList
<1> HIDE DEF K, I
<1>5. /\ CompleteList \in Seq(Service)
      /\ Len(CompleteList) = n + Len(K)
      /\ \A i \in 1 .. n + Len(K) : CompleteList[i] = IF i <= n THEN FromTor[i] ELSE K[i - n]
  BY <1>1, <1>2, <1>4, ConcatProperties
<1>6. n \in Nat /\ Len(K) \in Nat /\ DOMAIN FromTor = 1 .. n
      /\ DOMAIN CompleteList = 1 .. n + Len(K)
  BY <1>1, <1>2, <1>5
<1> HIDE DEF n
<1>7. \A a \in DOMAIN CompleteList \ DOMAIN FromTor :
         a - n \in 1 .. Len(K) /\ CompleteList[a] = K[a - n]
  BY <1>5, <1>6
<1> DEFINE g == [a \in DOMAIN CompleteList \ DOMAIN FromTor |-> f[a - n]]
<1>8. ASSUME NEW a \in DOMAIN CompleteList \ DOMAIN FromTor
      PROVE  /\ g[a] \in 1 .. Len(stored)
             /\ CompleteList[a].dir = <<stored[g[a]][1]>>
             /\ \A i \in DOMAIN FromTor : FromTor[i].dir # CompleteList[a].dir
  <2>1. f[a - n] \in (1 .. Len(stored)) \cap I /\ K[a - n] = GetServices[f[a - n]]
    BY <1>3, <1>7 DEF Picks
  <2>2. CompleteList[a] = GetServices[f[a - n]]
    BY <2>1, <1>7
  <2>3. ~IsServicePublished(GetServices[f[a - n]], FromTor)
    BY <2>1 DEF I
  <2> QED BY <2>1, <2>2, <2>3, GetServicesIs DEF IsServicePublished
<1>9. ASSUME NEW a \in DOMAIN CompleteList \ DOMAIN FromTor,
             NEW b \in DOMAIN CompleteList \ DOMAIN FromTor, a # b
      PROVE  g[a] # g[b]
  <2>1. a - n \in 1 .. Len(K) /\ b - n \in 1 .. Len(K) /\ (a - n < b - n \/ b - n < a - n)
    BY <1>6, <1>7, <1>9
  <2>2. f[a - n] \in Nat /\ f[b - n] \in Nat /\ (f[a - n] < f[b - n] \/ f[b - n] < f[a - n])
    BY <1>3, <2>1 DEF Picks
  <2> QED BY <2>2
<1>10. g \in [DOMAIN CompleteList \ DOMAIN FromTor -> 1 .. Len(stored)]
  BY <1>8
<1> HIDE DEF g
<1>11. \A i \in DOMAIN FromTor : i \in DOMAIN CompleteList /\ CompleteList[i] = FromTor[i]
  BY <1>5, <1>6
<1> QED BY <1>5, <1>8, <1>9, <1>10, <1>11

------------------------------------------------------------------------------
(* Editing *)

\* The table R and the map S agree.
Agree(R, S) == \A i \in 1 .. Len(R) : i \in DOMAIN S /\ S[i].enabled = R[i].box

\* The directory of a row is dropped where its box is unticked.
LEMMA Selecting ==
    ASSUME NEW STATE R, R \in Seq(Row), NEW STATE S, S \in [DOMAIN S -> Service],
           Agree(R, S), NEW c, c = NoCell \/ c \in Cells(Len(R)),
           NEW STATE D, D \subseteq Dirs, SelectionChanged(R, S, c, D)
    PROVE  /\ rows' \in Seq(Row) /\ Len(rows') = Len(R)
           /\ DOMAIN services' = DOMAIN S /\ services' \in [DOMAIN S -> Service]
           /\ Agree(rows', services')
           /\ buttons' \subseteq {"remove", "browse"}
           /\ D \subseteq dropped' /\ dropped' \subseteq Dirs
           /\ \A i \in 1 .. Len(R) :
                 /\ rows'[i].dir = R[i].dir /\ rows'[i].kept = R[i].kept
                 /\ R[i].box /\ ~rows'[i].box => R[i].dir \in dropped' \cup {NoDir}
<1>1. \A i \in 1 .. Len(R) : R[i] \in Row
  BY ElementOfSeq
<1>2. buttons' \subseteq {"remove", "browse"}
  BY DEF SelectionChanged
<1>3. CASE c.column # "enabled"
  <2>1. rows' = R /\ services' = S /\ dropped' = D
    BY <1>3 DEF SelectionChanged
  <2> QED BY <1>2, <2>1
<1>4. CASE c.column = "enabled"
  <2>1. c.row \in 1 .. Len(R)
    BY <1>4 DEF NoCell, Cells
  <2>2. c.row \in DOMAIN S /\ S[c.row].enabled = R[c.row].box /\ S[c.row] \in Service
        /\ R[c.row] \in Row
    BY <1>1, <2>1 DEF Agree
  <2>3. /\ rows' = [R EXCEPT ![c.row].box = ~S[c.row].enabled]
        /\ services' = [S EXCEPT ![c.row].enabled = ~@]
        /\ dropped' = IF S[c.row].enabled THEN D \cup Lost(R[c.row].dir) ELSE D
    BY <1>4 DEF SelectionChanged
  <2>4. (~S[c.row].enabled) \in BOOLEAN
    OBVIOUS
  <2>5. /\ DOMAIN services' = DOMAIN S
        /\ services'[c.row] = [S[c.row] EXCEPT !.enabled = ~S[c.row].enabled]
        /\ \A i \in DOMAIN S : i # c.row => services'[i] = S[i]
    BY <2>2, <2>3
  <2>6. services'[c.row] \in Service /\ services'[c.row].enabled = ~S[c.row].enabled
    BY <2>2, <2>5 DEF Service
  <2>7. services' \in [DOMAIN S -> Service]
    BY <2>3, <2>5, <2>6
  <2>8. /\ rows'[c.row] = [R[c.row] EXCEPT !.box = ~S[c.row].enabled]
        /\ \A i \in 1 .. Len(R) : i # c.row => rows'[i] = R[i]
    BY <2>1, <2>3
  <2>9. /\ rows'[c.row] \in Row /\ rows'[c.row].box = ~S[c.row].enabled
        /\ rows'[c.row].dir = R[c.row].dir /\ rows'[c.row].kept = R[c.row].kept
    BY <2>2, <2>4, <2>8 DEF Row
  <2>10. rows' \in Seq(Row) /\ Len(rows') = Len(R)
    <3>1. rows' = [R EXCEPT ![c.row] = rows'[c.row]]
      BY <2>1, <2>3
    <3> QED BY <2>1, <2>9, <3>1, ExceptSeq
  <2>11. Agree(rows', services')
    <3>1. ASSUME NEW i \in 1 .. Len(R)
          PROVE  i \in DOMAIN services' /\ services'[i].enabled = rows'[i].box
      <4>1. CASE i = c.row
        BY <2>2, <2>5, <2>6, <2>9, <4>1
      <4>2. CASE i # c.row
        BY <2>5, <2>8, <4>2 DEF Agree
      <4> QED BY <4>1, <4>2
    <3> QED BY <2>10, <3>1 DEF Agree
  <2>12. R[c.row].dir \in AnyDir
    BY <2>2 DEF Row
  <2>13. /\ D \subseteq dropped' /\ dropped' \subseteq Dirs
         /\ S[c.row].enabled => R[c.row].dir \in dropped' \cup {NoDir}
    BY <2>3, <2>12 DEF Lost, AnyDir
  <2> QED BY <1>2, <2>2, <2>5, <2>7, <2>8, <2>9, <2>10, <2>11, <2>13
<1> QED BY <1>3, <1>4

\* A row less, and the keys above it decreased.
LEMMA RowRemoved ==
    ASSUME NEW R \in Seq(Row), NEW k \in 1 .. Len(R)
    PROVE  /\ RemoveAt(R, k) \in Seq(Row) /\ Len(RemoveAt(R, k)) = Len(R) - 1
           /\ \A i \in 1 .. Len(R) - 1 : RemoveAt(R, k)[i] = IF i < k THEN R[i] ELSE R[i + 1]
<1> DEFINE a == SubSeq(R, 1, k - 1)
           b == SubSeq(R, k + 1, Len(R))
<1>1. Len(R) \in Nat /\ k \in Nat /\ 1 <= k /\ k <= Len(R)
  OBVIOUS
<1>2. /\ a \in Seq(Row) /\ Len(a) = k - 1
      /\ \A i \in 1 .. k - 1 : a[i] = R[i]
  BY <1>1, SubSeqProperties
<1>3. /\ b \in Seq(Row) /\ Len(b) = Len(R) - k
      /\ \A i \in 1 .. Len(R) - k : b[i] = R[k + i]
  <2>1. CASE k = Len(R)
    BY <1>1, <2>1, SubSeqProperties
  <2>2. CASE k < Len(R)
    BY <1>1, <2>2, SubSeqProperties
  <2> QED BY <1>1, <2>1, <2>2
<1>4. RemoveAt(R, k) = a \o b
  BY DEF RemoveAt
<1> HIDE DEF a, b
<1>5. /\ a \o b \in Seq(Row) /\ Len(a \o b) = Len(a) + Len(b)
      /\ \A i \in 1 .. Len(a) + Len(b) : (a \o b)[i] = IF i <= Len(a) THEN a[i] ELSE b[i - Len(a)]
  BY <1>2, <1>3, ConcatProperties
<1>6. Len(a) + Len(b) = Len(R) - 1
  BY <1>1, <1>2, <1>3
<1>7. ASSUME NEW i \in 1 .. Len(R) - 1 PROVE (a \o b)[i] = IF i < k THEN R[i] ELSE R[i + 1]
  <2>1. (a \o b)[i] = IF i <= k - 1 THEN a[i] ELSE b[i - (k - 1)]
    BY <1>2, <1>5, <1>6
  <2>2. CASE i < k
    BY <1>1, <1>2, <2>1, <2>2
  <2>3. CASE ~ (i < k)
    <3>1. i - (k - 1) \in 1 .. Len(R) - k /\ k + (i - (k - 1)) = i + 1 /\ ~ (i <= k - 1)
      BY <1>1, <2>3
    <3>2. b[i - (k - 1)] = R[k + (i - (k - 1))]
      BY <1>3, <3>1
    <3> QED BY <2>1, <2>3, <3>1, <3>2
  <2> QED BY <2>2, <2>3
<1> QED BY <1>4, <1>5, <1>6, <1>7

LEMMA KeysShifted ==
    ASSUME TypeOK, BoxesAreTrue, NEW k \in 1 .. Len(rows)
    PROVE  /\ DOMAIN Shifted(k) \subseteq 1 .. MaxRows
           /\ Shifted(k) \in [DOMAIN Shifted(k) -> Service]
           /\ Agree(RemoveAt(rows, k), Shifted(k))
<1> DEFINE n == Len(rows)
           M == DOMAIN services \ (IF k = n THEN {} ELSE {n})
<1>1. rows \in Seq(Row) /\ n \in Nat /\ k \in Nat /\ DOMAIN rows = 1 .. n
  BY DEF TypeOK
<1>2. \A i \in 1 .. n : i \in DOMAIN services /\ services[i].enabled = rows[i].box
  BY <1>1 DEF BoxesAreTrue
<1>3. Shifted(k) = [j \in M |-> IF k <= j /\ j < n THEN services[j + 1] ELSE services[j]]
  BY DEF Shifted
<1>4. \A j \in M : j \in Nat /\ services[j] \in Service
  BY DEF TypeOK
<1>5. ASSUME NEW j \in M, k <= j, j < n PROVE services[j + 1] \in Service
  <2> HIDE DEF M, n
  <2>1. j \in Nat
    BY <1>4
  <2>2. j + 1 \in 1 .. n
    BY <1>1, <1>5, <2>1
  <2> QED BY <1>2, <2>2 DEF TypeOK
<1>6. Shifted(k) \in [DOMAIN Shifted(k) -> Service] /\ DOMAIN Shifted(k) = M
  BY <1>3, <1>4, <1>5
<1>7. M \subseteq 1 .. MaxRows
  BY DEF TypeOK
<1>8. M = DOMAIN services \ (IF k = n THEN {} ELSE {n})
  OBVIOUS
<1> HIDE DEF n, M
<1>9. ASSUME NEW i \in 1 .. n - 1
      PROVE  i \in M /\ Shifted(k)[i].enabled = RemoveAt(rows, k)[i].box
  <2>1. i \in 1 .. n /\ i # n /\ i + 1 \in 1 .. n
    BY <1>1
  <2>2. i \in M
    BY <1>2, <1>8, <2>1
  <2>3. RemoveAt(rows, k)[i] = IF i < k THEN rows[i] ELSE rows[i + 1]
    BY <1>1, RowRemoved DEF n
  <2>4. Shifted(k)[i] = IF k <= i /\ i < n THEN services[i + 1] ELSE services[i]
    BY <1>3, <2>2
  <2>5. (i < k) = ~(k <= i /\ i < n)
    BY <1>1
  <2> QED BY <1>2, <2>1, <2>2, <2>3, <2>4, <2>5
<1> QED BY <1>1, <1>6, <1>7, <1>9, RowRemoved DEF Agree, n

\* What valueChanged() leaves of a directory that was given to the current row: nothing,
\* if it is empty; the last valid one, if another row has it; itself.  Nothing is validated
\* where another column is the current one.
LEMMA Changing ==
    ASSUME TypeOK, cell \in Cells(Len(rows)), NEW d \in AnyDir,
           rows' = ValueChanged([rows EXCEPT ![cell.row].dir = d])
    PROVE  /\ rows' \in Seq(Row) /\ Len(rows') = Len(rows)
           /\ \A i \in 1 .. Len(rows) : i # cell.row => rows'[i] = rows[i]
           /\ rows'[cell.row].box = rows[cell.row].box
           /\ cell.column = "dir" =>
                 \/ /\ d = NoDir /\ rows'[cell.row].dir = NoDir
                    /\ rows'[cell.row].kept = rows[cell.row].kept
                 \/ /\ d # NoDir /\ rows'[cell.row].dir = rows[cell.row].kept
                    /\ rows'[cell.row].kept = rows[cell.row].kept
                 \/ /\ d # NoDir /\ rows'[cell.row].dir = d /\ rows'[cell.row].kept = d
                    /\ \A i \in 1 .. Len(rows) : i # cell.row => rows[i].dir # d
<1> DEFINE r == cell.row
           q == [rows[r] EXCEPT !.dir = d]
           R == [rows EXCEPT ![r].dir = d]
<1>1. r \in 1 .. Len(rows) /\ rows \in Seq(Row) /\ rows[r] \in Row
  BY ElementOfSeq DEF TypeOK, Cells
<1>2. /\ q \in Row /\ q.dir = d /\ q.kept = rows[r].kept /\ q.box = rows[r].box
  BY <1>1 DEF Row
<1>3. R = [rows EXCEPT ![r] = q]
  BY <1>1
<1> HIDE DEF q
<1>4. R \in Seq(Row) /\ Len(R) = Len(rows) /\ R[r] = q
      /\ \A i \in 1 .. Len(rows) : i # r => R[i] = rows[i]
  BY <1>1, <1>2, <1>3, ExceptSeq
<1> HIDE DEF R
<1>5. CASE cell.column = "dir"
  <2> DEFINE v == Validated(R[r], InUse(R, r))
  <2>1. rows' = [R EXCEPT ![r] = v]
    BY <1>1, <1>4, <1>5 DEF ValueChanged, R
  <2>2. /\ v \in Row /\ v.box = rows[r].box
        /\ \/ d = NoDir /\ v.dir = NoDir /\ v.kept = rows[r].kept
           \/ d # NoDir /\ InUse(R, r) /\ v.dir = rows[r].kept /\ v.kept = rows[r].kept
           \/ d # NoDir /\ ~InUse(R, r) /\ v.dir = d /\ v.kept = d
    <3>1. CASE d = NoDir
      <4>1. v = q
        BY <1>2, <1>4, <3>1 DEF Validated, InUse
      <4> QED BY <1>2, <3>1, <4>1
    <3>2. CASE d # NoDir /\ InUse(R, r)
      <4>1. v = [q EXCEPT !.dir = q.kept]
        BY <1>2, <1>4, <3>2 DEF Validated
      <4> QED BY <1>2, <3>2, <4>1 DEF Row
    <3>3. CASE d # NoDir /\ ~InUse(R, r)
      <4>1. v = [q EXCEPT !.kept = q.dir]
        BY <1>2, <1>4, <3>3 DEF Validated
      <4> QED BY <1>2, <3>3, <4>1 DEF Row
    <3> QED BY <3>1, <3>2, <3>3
  <2>3. d # NoDir /\ ~InUse(R, r) => \A i \in 1 .. Len(rows) : i # r => rows[i].dir # d
    BY <1>1, <1>2, <1>4 DEF InUse
  <2> HIDE DEF v
  <2>4. rows' \in Seq(Row) /\ Len(rows') = Len(rows) /\ rows'[r] = v
        /\ \A i \in 1 .. Len(rows) : i # r => rows'[i] = rows[i]
    <3>1. r \in 1 .. Len(R) /\ v \in Row
      BY <1>1, <1>4, <2>2
    <3>2. /\ [R EXCEPT ![r] = v] \in Seq(Row) /\ Len([R EXCEPT ![r] = v]) = Len(R)
          /\ \A i \in 1 .. Len(R) : [R EXCEPT ![r] = v][i] = IF i = r THEN v ELSE R[i]
      BY <1>4, <3>1, ExceptSeq
    <3> QED BY <1>1, <1>4, <2>1, <3>2
  <2> QED BY <2>2, <2>3, <2>4
<1>6. CASE cell.column # "dir"
  <2>1. rows' = R
    BY <1>6 DEF ValueChanged, R
  <2> QED BY <1>2, <1>4, <1>6, <2>1
<1> QED BY <1>5, <1>6

------------------------------------------------------------------------------
(* Types, and the boxes *)

\* The services that are saved.
LEMMA ServiceListIs ==
    ASSUME TypeOK, BoxesAreTrue
    PROVE  /\ ServiceList \in Seq(Service) /\ Len(ServiceList) = Len(rows)
           /\ \A i \in 1 .. Len(rows) : /\ ServiceList[i].dir = rows[i].dir
                                        /\ ServiceList[i].enabled = rows[i].box
<1> DEFINE n == Len(rows)
           e(i) == [dir |-> rows[i].dir, enabled |-> services[i].enabled, opts |-> OptionsOf(i)]
<1>1. n \in Nat /\ DOMAIN rows = 1 .. n /\ \A i \in 1 .. n : rows[i] \in Row
  BY ElementOfSeq DEF TypeOK
<1>2. \A i \in 1 .. n : i \in DOMAIN services /\ services[i].enabled = rows[i].box
                        /\ services[i] \in Service
  BY <1>1 DEF BoxesAreTrue, TypeOK
<1>3. \A i : OptionsOf(i) \in AnyOptions
  BY DEF OptionsOf, TypeOK, Service, AnyOptions
<1>4. \A i \in 1 .. n : e(i) \in Service
  BY <1>1, <1>2, <1>3 DEF Row, Service
<1>5. ServiceList = [i \in 1 .. n |-> e(i)]
  BY <1>1 DEF ServiceList
<1>6. ServiceList \in Seq(Service) /\ Len(ServiceList) = n
  BY <1>1, <1>4, <1>5
<1>7. \A i \in 1 .. n : e(i).dir = rows[i].dir /\ e(i).enabled = services[i].enabled
  OBVIOUS
<1> HIDE DEF e
<1> QED BY <1>2, <1>5, <1>6, <1>7

\* What Tor publishes after Publish(list).
LEMMA PublishedIs ==
    ASSUME TypeOK, NEW L, L \in Seq(Service), Publish(L), CheckBeforeSaving(L)
    PROVE  /\ tor' \in Seq(Published)
           /\ \/ UNCHANGED tor
              \/ /\ \E f \in [DOMAIN tor' -> 1 .. Len(L)] :
                       /\ \A i \in DOMAIN tor' : tor'[i].dir = L[f[i]].dir /\ L[f[i]].enabled
                       /\ \A i, j \in DOMAIN tor' : i # j => f[i] # f[j]
                 /\ \A i \in 1 .. Len(L) : L[i].enabled =>
                       \E j \in DOMAIN tor' : tor'[j].dir = L[i].dir
<1>1. CASE UNCHANGED tor
  BY <1>1 DEF TypeOK
<1>2. CASE /\ tor' = ConfOf(ToPublish(L))
           /\ \A i \in DOMAIN tor' : tor'[i].opts \in Options
  <2> DEFINE I == {i \in DOMAIN L : L[i].enabled}
             K == Kept(L, I)
  <2>1. K \in Seq(Service) /\ \E f : Picks(L, I, Len(L), K, f)
    BY KeptIsSubsequence
  <2>2. PICK f : Picks(L, I, Len(L), K, f)
    BY <2>1
  <2>3. ToPublish(L) = K
    BY DEF ToPublish
  <2>4. DOMAIN L = 1 .. Len(L) /\ Len(L) \in Nat
    OBVIOUS
  <2> HIDE DEF K
  <2>5. Len(K) \in Nat /\ DOMAIN K = 1 .. Len(K)
    BY <2>1
  <2>6. tor' = [i \in 1 .. Len(K) |-> [dir |-> K[i].dir, opts |-> K[i].opts]]
    BY <1>2, <2>3, <2>5 DEF ConfOf
  <2>7. DOMAIN tor' = 1 .. Len(K) /\ \A i \in 1 .. Len(K) : tor'[i].dir = K[i].dir
    BY <2>6
  <2>8. f \in [1 .. Len(K) -> 1 .. Len(L)]
        /\ \A i \in 1 .. Len(K) : K[i] = L[f[i]] /\ L[f[i]].enabled
    BY <2>2 DEF Picks
  <2>9. ASSUME NEW i \in 1 .. Len(K) PROVE tor'[i] \in Published
    <3>1. K[i] \in Service /\ K[i] = L[f[i]] /\ f[i] \in 1 .. Len(L)
      BY <2>1, <2>8, ElementOfSeq
    <3>2. K[i].dir \in Dirs
      BY <2>4, <3>1 DEF CheckBeforeSaving, Service, AnyDir
    <3>3. K[i].opts \in Options
      BY <1>2, <2>6, <2>7
    <3> QED BY <2>6, <3>2, <3>3 DEF Published
  <2>10. tor' \in Seq(Published)
    BY <2>5, <2>6, <2>7, <2>9
  <2>11. \A i, j \in 1 .. Len(K) : i # j => f[i] # f[j]
    <3> SUFFICES ASSUME NEW i \in 1 .. Len(K), NEW j \in 1 .. Len(K), i # j PROVE f[i] # f[j]
      OBVIOUS
    <3>1. i < j \/ j < i
      BY <2>5
    <3>2. f[i] \in Nat /\ f[j] \in Nat
      BY <2>4, <2>8
    <3>3. f[i] < f[j] \/ f[j] < f[i]
      BY <2>2, <3>1 DEF Picks
    <3> QED BY <3>2, <3>3
  <2>12. ASSUME NEW i \in 1 .. Len(L), L[i].enabled
         PROVE  \E j \in DOMAIN tor' : tor'[j].dir = L[i].dir
    <3>1. i \in (1 .. Len(L)) \cap I
      BY <2>4, <2>12
    <3>2. PICK a \in 1 .. Len(K) : f[a] = i
      BY <2>2, <3>1 DEF Picks
    <3> QED BY <2>7, <2>8, <3>2
  <2>13. /\ f \in [DOMAIN tor' -> 1 .. Len(L)]
         /\ \A i \in DOMAIN tor' : tor'[i].dir = L[f[i]].dir /\ L[f[i]].enabled
         /\ \A i, j \in DOMAIN tor' : i # j => f[i] # f[j]
    BY <2>7, <2>8, <2>11
  <2> QED BY <2>10, <2>12, <2>13
<1> QED BY <1>1, <1>2 DEF Publish

Typed == TypeOK /\ BoxesAreTrue

LEMMA TypedAgree == TypeOK => (BoxesAreTrue <=> Agree(rows, services))
BY DEF TypeOK, BoxesAreTrue, Agree

LEMMA TypedAgreeNext == TypeOK' => (BoxesAreTrue' <=> Agree(rows', services'))
BY DEF TypeOK, BoxesAreTrue, Agree

LEMMA InitTyped == Init => Typed
<1> SUFFICES ASSUME Init PROVE Typed
  OBVIOUS
<1>1. tor \in Seq(Published)
  <2>1. CASE tor = <<>>
    BY <2>1
  <2>2. CASE tor \in {<<s>> : s \in Published}
    <3>1. PICK s \in Published : tor = <<s>>
      BY <2>2
    <3>2. <<s>> \in Seq(Published)
      OBVIOUS
    <3> QED BY <3>1, <3>2
  <2> QED BY <2>1, <2>2 DEF Init
<1>2. NoCell \in Cell
  BY DEF NoCell, Cell
<1>3. /\ rows \in Seq(Row) /\ Len(rows) = 0 /\ DOMAIN rows = {}
      /\ services \in [DOMAIN services -> Service] /\ DOMAIN services = {}
      /\ stored \in Seq(Text)
  BY DEF Init
<1>4. MaxRows \in Nat /\ 0 \in 0 .. MaxShows /\ 0 \in 0 .. MaxEdits
  BY Bounds
<1>5. /\ link = "Down" /\ shown = FALSE /\ shows = 0 /\ edits = 0 /\ cell = NoCell
      /\ buttons = {} /\ torServices = {} /\ dropped = {} /\ erased = {}
      /\ blind = FALSE /\ browsed = FALSE
  BY DEF Init
<1>6. TypeOK
  <2>1. link \in {"Down", "Authed"} /\ shown \in BOOLEAN /\ blind \in BOOLEAN /\ browsed \in BOOLEAN
    BY <1>5
  <2>2. Len(rows) <= MaxRows
    BY <1>3, <1>4
  <2>3. DOMAIN services \subseteq 1 .. MaxRows /\ services \in [DOMAIN services -> Service]
    BY <1>3
  <2>4. cell \in Cell /\ (cell = NoCell \/ cell \in Cells(Len(rows)))
    BY <1>2, <1>5
  <2>5. /\ torServices \subseteq Dirs /\ buttons \subseteq {"remove", "browse"}
        /\ dropped \subseteq Dirs /\ erased \subseteq Dirs
    BY <1>5
  <2>6. shows \in 0 .. MaxShows /\ edits \in 0 .. MaxEdits
    BY <1>4, <1>5
  <2> QED BY <1>1, <1>3, <2>1, <2>2, <2>3, <2>4, <2>5, <2>6 DEF TypeOK
<1> QED BY <1>3, <1>6 DEF Typed, BoxesAreTrue

\* A dialog that is hidden again.
LEMMA HiddenTyped ==
    ASSUME Typed, HideTable, tor' \in Seq(Published), stored' \in Seq(Text),
           UNCHANGED <<link, shows>>
    PROVE  Typed'
<1>1. NoCell \in Cell
  BY DEF NoCell, Cell
<1>2. /\ rows' \in Seq(Row) /\ Len(rows') = 0 /\ DOMAIN rows' = {}
      /\ services' \in [DOMAIN services' -> Service] /\ DOMAIN services' = {}
  BY DEF HideTable
<1>3. MaxRows \in Nat /\ 0 \in 0 .. MaxEdits
  BY Bounds
<1>4. /\ shown' = FALSE /\ edits' = 0 /\ cell' = NoCell /\ buttons' = {} /\ torServices' = {}
      /\ dropped' = {} /\ blind' = FALSE /\ browsed' = browsed /\ erased' = erased
      /\ link' = link /\ shows' = shows
  BY DEF HideTable
<1>5. link' \in {"Down", "Authed"} /\ shows' \in 0 .. MaxShows /\ browsed' \in BOOLEAN
      /\ erased' \subseteq Dirs
  BY <1>4 DEF Typed, TypeOK
<1>6. tor' \in Seq(Published) /\ stored' \in Seq(Text)
  OBVIOUS
<1>7. TypeOK'
  <2>1. shown' \in BOOLEAN /\ blind' \in BOOLEAN
    BY <1>4
  <2>2. Len(rows') <= MaxRows
    BY <1>2, <1>3
  <2>3. DOMAIN services' \subseteq 1 .. MaxRows /\ services' \in [DOMAIN services' -> Service]
    BY <1>2
  <2>4. cell' \in Cell /\ (cell' = NoCell \/ cell' \in Cells(Len(rows')))
    BY <1>1, <1>4
  <2>5. /\ torServices' \subseteq Dirs /\ buttons' \subseteq {"remove", "browse"}
        /\ dropped' \subseteq Dirs
    BY <1>4
  <2>6. edits' \in 0 .. MaxEdits
    BY <1>3, <1>4
  <2> QED BY <1>2, <1>5, <1>6, <2>1, <2>2, <2>3, <2>4, <2>5, <2>6 DEF TypeOK
<1> QED BY <1>2, <1>7 DEF Typed, BoxesAreTrue

LEMMA LoadedTyped ==
    ASSUME Typed, ShowWindow
    PROVE  Typed'
<1> DEFINE n == Len(CompleteList)
<1>1. CompleteList \in Seq(Service) /\ n \in Nat /\ DOMAIN CompleteList = 1 .. n
      /\ \A i \in 1 .. n : CompleteList[i] \in Service
  BY CompleteListIs, ElementOfSeq DEF Typed
<1>2. \A i \in 1 .. n : LoadedRow(CompleteList[i]) \in Row
                        /\ LoadedRow(CompleteList[i]).box = CompleteList[i].enabled
  BY <1>1 DEF LoadedRow, Row, Service
<1>3. rows' = [i \in 1 .. n |-> LoadedRow(CompleteList[i])]
  BY <1>1 DEF ShowWindow
<1>4. rows' \in Seq(Row) /\ Len(rows') = n /\ n <= MaxRows
  BY <1>1, <1>2, <1>3 DEF ShowWindow
<1>5. /\ services' \in [DOMAIN services' -> Service]
      /\ DOMAIN services' = 1 .. n
  BY <1>1 DEF ShowWindow
<1>6. 1 .. n \subseteq 1 .. MaxRows
  BY <1>1, <1>4, Bounds
<1>7. torServices' \subseteq Dirs
  BY FromTorIs DEF ShowWindow, Typed
<1>8. NoCell \in Cell
  BY DEF NoCell, Cell
<1>9. shows' \in 0 .. MaxShows /\ edits' \in 0 .. MaxEdits
  BY Bounds DEF ShowWindow, Typed, TypeOK
<1>10. Agree(rows', services')
  BY <1>1, <1>2, <1>3, <1>4, <1>5 DEF Agree, ShowWindow
<1> HIDE DEF n
<1>11. TypeOK'
  BY <1>4, <1>5, <1>6, <1>7, <1>8, <1>9 DEF ShowWindow, Typed, TypeOK
<1> QED BY <1>10, <1>11, TypedAgreeNext DEF Typed

LEMMA CellIs ==
    ASSUME Typed
    PROVE  /\ cell.row # 0 => cell \in Cells(Len(rows)) /\ cell.row \in 1 .. Len(rows)
           /\ cell.column \in Columns => cell \in Cells(Len(rows))
           /\ \A n \in Nat : Cells(n) \subseteq Cell
BY DEF Typed, TypeOK, NoCell, Cells, Cell, Columns

LEMMA StepTyped == Typed /\ [Next]_vars => Typed'
<1> SUFFICES ASSUME Typed, [Next]_vars PROVE Typed'
  OBVIOUS
<1>1. CASE ShowWindow
  BY <1>1, LoadedTyped
<1>2. CASE Close
  BY <1>2, HiddenTyped DEF Close, Typed, TypeOK
<1>3. Acts => edits' \in 0 .. MaxEdits
  BY Bounds DEF Acts, Typed, TypeOK
<1>4. CASE Click
  <2>1. PICK c \in Cells(Len(rows)) : cell' = c /\ SelectionChanged(rows, services, c, dropped)
    BY <1>4 DEF Click
  <2>2. /\ rows' \in Seq(Row) /\ Len(rows') = Len(rows)
        /\ DOMAIN services' = DOMAIN services /\ services' \in [DOMAIN services -> Service]
        /\ Agree(rows', services') /\ buttons' \subseteq {"remove", "browse"}
        /\ dropped' \subseteq Dirs
    BY <2>1, TypedAgree, Selecting DEF Typed, TypeOK
  <2>3. TypeOK'
    <3>1. c \in Cell /\ cell' \in Cells(Len(rows')) /\ Len(rows') <= MaxRows
      <4>1. Len(rows) \in Nat /\ Len(rows) <= MaxRows
        BY DEF Typed, TypeOK
      <4>2. c \in Cell
        BY <2>1, <4>1, CellIs
      <4> QED BY <2>1, <2>2, <4>1, <4>2
    <3>2. DOMAIN services' \subseteq 1 .. MaxRows /\ services' \in [DOMAIN services' -> Service]
      BY <2>2 DEF Typed, TypeOK
    <3>3. /\ tor' \in Seq(Published) /\ stored' \in Seq(Text) /\ edits' \in 0 .. MaxEdits
          /\ link' \in {"Down", "Authed"} /\ shown' \in BOOLEAN /\ shows' \in 0 .. MaxShows
          /\ torServices' \subseteq Dirs /\ erased' \subseteq Dirs
          /\ blind' \in BOOLEAN /\ browsed' \in BOOLEAN
      BY <1>3, <1>4 DEF Click, Acts, Typed, TypeOK
    <3> QED BY <2>1, <2>2, <3>1, <3>2, <3>3 DEF TypeOK
  <2> QED BY <2>2, <2>3, TypedAgreeNext DEF Typed
<1>5. CASE MoveByKey
  <2>1. cell' \in Cells(Len(rows)) /\ cell' \in Cell
    BY <1>5, CellIs DEF MoveByKey, Typed, TypeOK
  <2>2. TypeOK'
    BY <1>3, <1>5, <2>1 DEF MoveByKey, Acts, history, Typed, TypeOK
  <2> QED BY <1>5, <2>2 DEF MoveByKey, Typed, BoxesAreTrue
<1>6. CASE AddService
  <2> DEFINE n == Len(rows) + 1
             r == [dir |-> NoDir, kept |-> NoDir, box |-> TRUE, fixed |-> FALSE]
             v == [enabled |-> TRUE, dir |-> NoDir, opts |-> ""]
  <2>1. r \in Row /\ v \in Service
    BY DEF Row, Service, AnyDir, AnyOptions
  <2>2. rows' = Append(rows, r) /\ services' = WithKey(services, n, v) /\ n <= MaxRows
    BY <1>6 DEF AddService
  <2>3. v.enabled = r.box
    OBVIOUS
  <2> HIDE DEF r, v
  <2>4. /\ rows' \in Seq(Row) /\ Len(rows') = n /\ rows'[n] = r
        /\ \A i \in 1 .. Len(rows) : rows'[i] = rows[i]
    BY <2>1, <2>2, AppendProperties DEF Typed, TypeOK
  <2>5. /\ DOMAIN services' = DOMAIN services \cup {n} /\ services'[n] = v
        /\ \A i \in DOMAIN services : i # n => services'[i] = services[i]
        /\ services' \in [DOMAIN services' -> Service]
    BY <2>1, <2>2 DEF WithKey, Typed, TypeOK
  <2>6. n \in 1 .. MaxRows /\ n \in Nat /\ Len(rows) \in Nat /\ MaxRows \in Nat
    BY <2>2, Bounds DEF Typed, TypeOK
  <2>7. \A i \in 1 .. n : i = n \/ (i \in 1 .. Len(rows) /\ i # n)
    BY <2>6
  <2>8. Agree(rows, services)
    BY TypedAgree DEF Typed
  <2>9. Agree(rows', services')
    BY <2>3, <2>4, <2>5, <2>7, <2>8 DEF Agree
  <2>10. cell = NoCell \/ cell \in Cells(n)
    BY <2>6 DEF Cells, Typed, TypeOK
  <2> HIDE DEF n
  <2>11. TypeOK'
    BY <1>3, <1>6, <2>2, <2>4, <2>5, <2>6, <2>10 DEF AddService, Acts, history, Typed, TypeOK
  <2> QED BY <2>9, <2>11, TypedAgreeNext DEF Typed
<1>7. CASE RemoveService
  <2> DEFINE R == RemoveAt(rows, cell.row)
             S == Shifted(cell.row)
             D == dropped \cup Lost(rows[cell.row].dir)
             C == IF Len(rows) = 1 THEN {NoCell} ELSE Cells(Len(rows) - 1)
  <2>1. PICK c \in C : cell' = c /\ SelectionChanged(R, S, c, D)
    BY <1>7 DEF RemoveService
  <2>2. cell.row \in 1 .. Len(rows) /\ rows \in Seq(Row) /\ Len(rows) \in Nat
    BY <1>7, CellIs DEF RemoveService, Typed, TypeOK
  <2>3. R \in Seq(Row) /\ Len(R) = Len(rows) - 1
    BY <2>2, RowRemoved
  <2>4. S \in [DOMAIN S -> Service] /\ DOMAIN S \subseteq 1 .. MaxRows /\ Agree(R, S)
    BY <2>2, KeysShifted DEF Typed
  <2>5. rows[cell.row].dir \in AnyDir
    <3>1. rows[cell.row] \in Row
      BY <2>2, ElementOfSeq
    <3> QED BY <3>1 DEF Row
  <2>6. D \subseteq Dirs
    BY <2>5 DEF Lost, AnyDir, Typed, TypeOK
  <2>7. c = NoCell \/ c \in Cells(Len(R))
    BY <2>3
  <2> HIDE DEF R, S, D
  <2>8. /\ rows' \in Seq(Row) /\ Len(rows') = Len(R)
        /\ DOMAIN services' = DOMAIN S /\ services' \in [DOMAIN S -> Service]
        /\ Agree(rows', services') /\ buttons' \subseteq {"remove", "browse"}
        /\ dropped' \subseteq Dirs
    BY <2>1, <2>3, <2>4, <2>6, <2>7, Selecting
  <2>9. NoCell \in Cell /\ Len(R) \in Nat
    BY <2>3 DEF NoCell, Cell
  <2>10. cell' \in Cell /\ (cell' = NoCell \/ cell' \in Cells(Len(rows')))
    BY <2>1, <2>7, <2>8, <2>9, CellIs
  <2>11. Len(rows') <= MaxRows
    BY <2>2, <2>3, <2>8, Bounds DEF Typed, TypeOK
  <2>12. TypeOK'
    BY <1>3, <1>7, <2>4, <2>8, <2>10, <2>11 DEF RemoveService, Acts, Typed, TypeOK
  <2> QED BY <2>8, <2>12, TypedAgreeNext DEF Typed
<1>8. ASSUME cell \in Cells(Len(rows)), NEW d \in AnyDir,
             rows' = ValueChanged([rows EXCEPT ![cell.row].dir = d])
      PROVE  /\ rows' \in Seq(Row) /\ Len(rows') = Len(rows)
             /\ Agree(rows', services)
             /\ dropped \cup Renamed \subseteq Dirs /\ Erased(rows'[cell.row]) \subseteq Dirs
  <2>1. /\ rows' \in Seq(Row) /\ Len(rows') = Len(rows)
        /\ \A i \in 1 .. Len(rows) : i # cell.row => rows'[i] = rows[i]
        /\ rows'[cell.row].box = rows[cell.row].box
    BY <1>8, Changing DEF Typed
  <2>2. Agree(rows, services)
    BY TypedAgree DEF Typed
  <2>3. Agree(rows', services)
    BY <2>1, <2>2 DEF Agree
  <2>4. cell.row \in 1 .. Len(rows)
    BY <1>8 DEF Cells
  <2>5. rows[cell.row] \in Row /\ rows'[cell.row] \in Row
    BY <2>1, <2>4, ElementOfSeq DEF Typed, TypeOK
  <2>6. dropped \cup Renamed \subseteq Dirs
    BY <2>5 DEF Renamed, Lost, Row, AnyDir, Typed, TypeOK
  <2>7. Erased(rows'[cell.row]) \subseteq Dirs
    BY <2>5 DEF Erased, Lost, Row, AnyDir
  <2> QED BY <2>1, <2>3, <2>6, <2>7
<1>9. CASE EditCell
  <2>1. cell \in Cells(Len(rows))
    BY <1>9, CellIs DEF EditCell, Columns
  <2>2. PICK d \in AnyDir : rows' = ValueChanged([rows EXCEPT ![cell.row].dir = d])
    BY <1>9 DEF EditCell, AnyDir
  <2>3. /\ rows' \in Seq(Row) /\ Len(rows') = Len(rows) /\ Agree(rows', services)
        /\ dropped' \subseteq Dirs /\ erased' \subseteq Dirs
    BY <1>8, <1>9, <2>1, <2>2 DEF EditCell, Typed, TypeOK
  <2>4. TypeOK'
    BY <1>3, <1>9, <2>3 DEF EditCell, Acts, Typed, TypeOK
  <2>5. services' = services
    BY <1>9 DEF EditCell
  <2> QED BY <2>3, <2>4, <2>5, TypedAgreeNext DEF Typed
<1>10. CASE BrowseDirectory
  <2>1. cell \in Cells(Len(rows)) /\ cell.row \in 1 .. Len(rows)
    BY <1>10, CellIs DEF BrowseDirectory
  <2>2. PICK d \in Dirs : /\ rows' = ValueChanged([rows EXCEPT ![cell.row].dir = d])
                          /\ services' = [services EXCEPT ![cell.row].dir = d]
    BY <1>10 DEF BrowseDirectory
  <2>3. d \in AnyDir
    BY DEF AnyDir
  <2>4. /\ rows' \in Seq(Row) /\ Len(rows') = Len(rows) /\ Agree(rows', services)
        /\ dropped' \subseteq Dirs
    BY <1>8, <1>10, <2>1, <2>2, <2>3 DEF BrowseDirectory
  <2>5. cell.row \in DOMAIN services /\ services[cell.row] \in Service
    BY <2>1, TypedAgree DEF Agree, Typed, TypeOK
  <2>6. /\ DOMAIN services' = DOMAIN services
        /\ services'[cell.row] = [services[cell.row] EXCEPT !.dir = d]
        /\ \A i \in DOMAIN services : i # cell.row => services'[i] = services[i]
    BY <2>2, <2>5
  <2>7. services'[cell.row] \in Service
        /\ services'[cell.row].enabled = services[cell.row].enabled
    BY <2>3, <2>5, <2>6 DEF Service
  <2>8. services' \in [DOMAIN services' -> Service]
    BY <2>2, <2>6, <2>7 DEF Typed, TypeOK
  <2>9. Agree(rows', services')
    BY <2>4, <2>6, <2>7 DEF Agree
  <2>10. TypeOK'
    BY <1>3, <1>10, <2>4, <2>6, <2>8 DEF BrowseDirectory, Acts, Typed, TypeOK
  <2> QED BY <2>9, <2>10, TypedAgreeNext DEF Typed
<1>11. CASE Save
  <2>1. /\ ServiceList \in Seq(Service) /\ Len(ServiceList) = Len(rows)
    BY ServiceListIs DEF Typed
  <2>2. tor' \in Seq(Published)
    BY <1>11, <2>1, PublishedIs DEF Save, Typed
  <2>3. \A i \in 1 .. Len(ServiceList) : Encoded(ServiceList[i]) \in Text
    BY <1>11, <2>1, ElementOfSeq, EncodedIs DEF Save, CheckBeforeSaving
  <2>4. /\ stored' = [i \in 1 .. Len(ServiceList) |-> Encoded(ServiceList[i])]
        /\ Len(ServiceList) \in Nat
    BY <1>11, <2>1 DEF Save
  <2>5. stored' \in Seq(Text)
    BY <2>3, <2>4
  <2>6. CASE HideTable
    BY <1>11, <2>2, <2>5, <2>6, HiddenTyped DEF Save
  <2>7. CASE /\ services' = IF rows = <<>> THEN <<>> ELSE services
             /\ UNCHANGED <<shown, rows, torServices, cell, buttons, edits, history>>
    <3>1. services' \in [DOMAIN services' -> Service] /\ DOMAIN services' \subseteq 1 .. MaxRows
      <4>1. CASE rows = <<>>
        BY <2>7, <4>1
      <4>2. CASE rows # <<>>
        BY <2>7, <4>2 DEF Typed, TypeOK
      <4> QED BY <4>1, <4>2
    <3>2. TypeOK'
      BY <1>11, <2>2, <2>5, <2>7, <3>1 DEF Save, history, Typed, TypeOK
    <3>3. BoxesAreTrue'
      BY <2>7 DEF Typed, BoxesAreTrue
    <3> QED BY <3>2, <3>3 DEF Typed
  <2> QED BY <1>11, <2>6, <2>7 DEF Save
<1>12. CASE LinkChanges
  BY <1>12 DEF LinkChanges, table, history, Typed, TypeOK, BoxesAreTrue
<1>13. CASE OtherConf
  <2>1. tor' \in Seq(Published)
    <3>1. PICK s \in Published : tor' = <<>> \/ tor' = <<s>>
      BY <1>13 DEF OtherConf
    <3>2. <<>> \in Seq(Published) /\ <<s>> \in Seq(Published)
      OBVIOUS
    <3> QED BY <3>1, <3>2
  <2> QED BY <1>13, <2>1 DEF OtherConf, table, Typed, TypeOK, BoxesAreTrue
<1>14. CASE UNCHANGED vars
  BY <1>14 DEF vars, table, history, Typed, TypeOK, BoxesAreTrue
<1> QED
  BY <1>1, <1>2, <1>4, <1>5, <1>6, <1>7, <1>9, <1>10, <1>11, <1>12, <1>13, <1>14 DEF Next

\* The page's state has its types, for any directories and any bounds: what getServices()
\* makes of the settings file, what the table holds and what is sent to Tor.
THEOREM ServicesTypeCorrect == Spec => []TypeOK
<1>1. Typed => TypeOK
  BY DEF Typed
<1> QED BY <1>1, InitTyped, StepTyped, PTL DEF Spec

\* The box of a row is what the map holds for its number, however rows are added and removed
\* (addService(), removeService(), serviceSelectionChanged()).
THEOREM BoxesTrue == Spec => []BoxesAreTrue
<1>1. Typed => BoxesAreTrue
  BY DEF Typed
<1> QED BY <1>1, InitTyped, StepTyped, PTL DEF Spec

------------------------------------------------------------------------------
(* Directories that are used twice *)

\* A text is loaded as the directory before its first "#", and a row may get back the
\* directory that was its last valid one.
TorExplained ==
    \A i, j \in DOMAIN tor : i # j /\ tor[i].dir = tor[j].dir => Unchecked(tor[i].dir)
StoredExplained ==
    \A i, j \in DOMAIN stored :
        i # j /\ stored[i][1] = stored[j][1] => Unchecked(<<stored[i][1]>>)
KeptExplained ==
    \A i \in DOMAIN rows : rows[i].kept = rows[i].dir \/ Unchecked(rows[i].kept)

Explained == TorExplained /\ StoredExplained /\ KeptExplained /\ DuplicatesExplained

LEMMA UncheckedGrows == [Next]_vars => \A d : Unchecked(d) => Unchecked(d)'
<1> SUFFICES ASSUME [Next]_vars PROVE (browsed => browsed') /\ erased \subseteq erased'
  BY DEF Unchecked
<1>1. CASE ShowWindow \/ Close \/ Click \/ MoveByKey \/ AddService
  <2>1. UNCHANGED <<browsed, erased>>
    <3>1. CASE ShowWindow
      BY <3>1 DEF ShowWindow
    <3>2. CASE Close
      BY <3>2 DEF Close, HideTable
    <3>3. CASE Click
      BY <3>3 DEF Click
    <3>4. CASE MoveByKey
      BY <3>4 DEF MoveByKey, history
    <3>5. CASE AddService
      BY <3>5 DEF AddService, history
    <3> QED BY <1>1, <3>1, <3>2, <3>3, <3>4, <3>5
  <2> QED BY <2>1
<1>2. CASE RemoveService \/ EditCell \/ BrowseDirectory \/ OtherConf
  <2>1. CASE RemoveService
    BY <2>1 DEF RemoveService
  <2>2. CASE EditCell
    BY <2>2 DEF EditCell
  <2>3. CASE BrowseDirectory
    BY <2>3 DEF BrowseDirectory
  <2>4. CASE OtherConf
    BY <2>4 DEF OtherConf
  <2> QED BY <1>2, <2>1, <2>2, <2>3, <2>4
<1>3. CASE Save \/ LinkChanges \/ UNCHANGED vars
  BY <1>3 DEF Save, HideTable, LinkChanges, vars, history
<1> QED BY <1>1, <1>2, <1>3 DEF Next

\* Rows that are not touched, and one that is (k; 0 if there is none).
LEMMA RowsStayExplained ==
    ASSUME TypeOK, KeptExplained, DuplicatesExplained, rows' \in Seq(Row),
           \A d : Unchecked(d) => Unchecked(d)', NEW k \in Nat,
           Len(rows') = Len(rows),
           \A i \in 1 .. Len(rows) :
              i # k => rows'[i].dir = rows[i].dir /\ rows'[i].kept = rows[i].kept,
           k \in 1 .. Len(rows) =>
              /\ rows'[k].kept = rows'[k].dir \/ Unchecked(rows[k].kept)'
              /\ \A i \in 1 .. Len(rows) :
                    i # k /\ rows[i].dir = rows'[k].dir => Unchecked(rows[i].dir)'
    PROVE  KeptExplained' /\ DuplicatesExplained'
<1>1. DOMAIN rows = 1 .. Len(rows) /\ DOMAIN rows' = 1 .. Len(rows)
  BY DEF TypeOK
<1>2. ASSUME NEW i \in 1 .. Len(rows)
      PROVE  rows'[i].kept = rows'[i].dir \/ Unchecked(rows[i].kept)'
  <2>1. CASE i = k
    BY <2>1
  <2>2. CASE i # k
    BY <1>1, <2>2 DEF KeptExplained
  <2> QED BY <2>1, <2>2
<1>3. ASSUME NEW i \in 1 .. Len(rows), NEW j \in 1 .. Len(rows), i # j,
             rows'[i].dir = rows'[j].dir
      PROVE  Unchecked(rows[i].dir)'
  <2>1. CASE i = k
    BY <1>3, <2>1
  <2>2. CASE j = k
    BY <1>3, <2>2
  <2>3. CASE i # k /\ j # k
    BY <1>1, <1>3, <2>3 DEF DuplicatesExplained
  <2> QED BY <2>1, <2>2, <2>3
<1> QED BY <1>1, <1>2, <1>3 DEF KeptExplained, DuplicatesExplained

\* A row that gets the directory d.
LEMMA ChangedRowExplained ==
    ASSUME TypeOK, KeptExplained, DuplicatesExplained, cell \in Cells(Len(rows)),
           NEW d \in AnyDir, rows' = ValueChanged([rows EXCEPT ![cell.row].dir = d]),
           \A e : Unchecked(e) => Unchecked(e)',
           cell.column # "dir" => browsed',
           d = NoDir => Erased(rows'[cell.row]) \subseteq erased'
    PROVE  KeptExplained' /\ DuplicatesExplained'
<1>0. PICK k : k = cell.row
  OBVIOUS
<1>1. /\ rows' \in Seq(Row) /\ Len(rows') = Len(rows)
      /\ \A i \in 1 .. Len(rows) : i # k => rows'[i] = rows[i]
  BY <1>0, Changing
<1>2. k \in 1 .. Len(rows) /\ k \in Nat /\ DOMAIN rows = 1 .. Len(rows)
  BY <1>0 DEF Cells, TypeOK
<1>3. CASE cell.column # "dir"
  BY <1>3 DEF Unchecked, KeptExplained, DuplicatesExplained
<1>4. CASE cell.column = "dir"
  <2>1. Unchecked(NoDir)'
    BY DEF Unchecked
  <2>2. /\ rows'[k].kept = rows'[k].dir \/ Unchecked(rows[k].kept)'
        /\ \A i \in 1 .. Len(rows) :
              i # k /\ rows[i].dir = rows'[k].dir => Unchecked(rows[i].dir)'
    <3>1. CASE d = NoDir /\ rows'[k].dir = NoDir
      <4>1. rows'[k].kept = NoDir \/ rows'[k].kept \in erased'
        BY <1>0, <3>1 DEF Erased, Lost
      <4>2. Unchecked(rows[k].kept)'
        BY <4>1 DEF Unchecked
      <4>3. ASSUME NEW i \in 1 .. Len(rows), i # k, rows[i].dir = rows'[k].dir
            PROVE  Unchecked(rows[i].dir)'
        <5>1. rows'[i].dir = NoDir
          BY <1>1, <3>1, <4>3
        <5> QED BY <5>1, <2>1
      <4> QED BY <4>2, <4>3
    <3>2. CASE rows'[k].dir = rows[k].kept /\ rows'[k].kept = rows[k].kept
      <4>1. ASSUME NEW i \in 1 .. Len(rows), i # k, rows[i].dir = rows'[k].dir
            PROVE  Unchecked(rows[i].dir)'
        <5>1. rows'[i].dir = rows[i].dir /\ rows[i].dir = rows[k].kept
          BY <1>1, <3>2, <4>1
        <5>2. Unchecked(rows[i].dir)
          <6>1. CASE rows[k].kept = rows[k].dir
            BY <1>2, <4>1, <5>1, <6>1 DEF DuplicatesExplained
          <6>2. CASE Unchecked(rows[k].kept)
            BY <5>1, <6>2
          <6> QED BY <1>2, <6>1, <6>2 DEF KeptExplained
        <5> QED BY <5>1, <5>2
      <4> QED BY <3>2, <4>1
    <3>3. CASE /\ rows'[k].dir = d /\ rows'[k].kept = d
               /\ \A i \in 1 .. Len(rows) : i # k => rows[i].dir # d
      BY <3>3
    <3> QED BY <1>0, <1>4, <3>1, <3>2, <3>3, Changing
  <2> QED BY <1>1, <1>2, <2>2, RowsStayExplained
<1> QED BY <1>3, <1>4

\* The table that is loaded.
LEMMA LoadedExplained ==
    ASSUME TypeOK, TorExplained, StoredExplained,
           rows' = [i \in DOMAIN CompleteList |-> LoadedRow(CompleteList[i])],
           \A e : Unchecked(e) => Unchecked(e)'
    PROVE  KeptExplained' /\ DuplicatesExplained'
<1> DEFINE D == DOMAIN CompleteList
           X == D \ DOMAIN FromTor
<1>1. /\ \A i \in DOMAIN FromTor : i \in D /\ CompleteList[i] = FromTor[i]
      /\ \A i \in DOMAIN FromTor : i \in DOMAIN tor /\ FromTor[i].dir = tor[i].dir
  BY CompleteListIs, FromTorIs
<1>2. PICK f \in [X -> 1 .. Len(stored)] :
         /\ \A a, b \in X : a # b => f[a] # f[b]
         /\ \A a \in X : /\ CompleteList[a].dir = <<stored[f[a]][1]>>
                         /\ \A i \in DOMAIN FromTor : FromTor[i].dir # CompleteList[a].dir
  BY CompleteListIs
<1>3. DOMAIN rows' = D /\ \A i \in D : /\ rows'[i].dir = CompleteList[i].dir
                                       /\ rows'[i].kept = CompleteList[i].dir
  BY DEF LoadedRow
<1>4. \A i \in D : i \in DOMAIN FromTor \/ i \in X
  OBVIOUS
<1> HIDE DEF D, X
<1>5. ASSUME NEW i \in D, NEW j \in D, i # j, CompleteList[i].dir = CompleteList[j].dir
      PROVE  Unchecked(CompleteList[i].dir)
  <2>1. CASE i \in DOMAIN FromTor /\ j \in DOMAIN FromTor
    BY <1>1, <1>5, <2>1 DEF TorExplained
  <2>2. CASE i \in X /\ j \in X
    <3>1. f[i] # f[j] /\ f[i] \in 1 .. Len(stored) /\ f[j] \in 1 .. Len(stored)
      BY <1>2, <1>5, <2>2
    <3>2. <<stored[f[i]][1]>> = <<stored[f[j]][1]>>
      BY <1>2, <1>5, <2>2
    <3>3. stored[f[i]][1] = stored[f[j]][1]
      BY <3>2
    <3>4. DOMAIN stored = 1 .. Len(stored)
      BY DEF TypeOK
    <3> QED BY <1>2, <2>2, <3>1, <3>3, <3>4 DEF StoredExplained
  <2>3. CASE i \in DOMAIN FromTor /\ j \in X
    BY <1>1, <1>2, <1>5, <2>3
  <2>4. CASE i \in X /\ j \in DOMAIN FromTor
    BY <1>1, <1>2, <1>5, <2>4
  <2> QED BY <1>4, <2>1, <2>2, <2>3, <2>4
<1>6. ASSUME NEW i \in D, NEW j \in D, i # j, rows'[i].dir = rows'[j].dir
      PROVE  Unchecked(rows[i].dir)'
  <2>1. Unchecked(CompleteList[i].dir)
    BY <1>3, <1>5, <1>6
  <2>2. PICK e : e = CompleteList[i].dir
    OBVIOUS
  <2>3. Unchecked(e)' /\ rows'[i].dir = e
    BY <1>3, <2>1, <2>2
  <2> QED BY <2>3
<1> QED BY <1>3, <1>6 DEF KeptExplained, DuplicatesExplained

\* What is saved and published of a table that is explained.
LEMMA SavedExplained ==
    ASSUME Typed, DuplicatesExplained, TorExplained, Save, \A e : Unchecked(e) => Unchecked(e)'
    PROVE  TorExplained' /\ StoredExplained'
<1> DEFINE L == ServiceList
           n == Len(rows)
<1>1. /\ L \in Seq(Service) /\ Len(L) = n /\ DOMAIN L = 1 .. n /\ DOMAIN rows = 1 .. n
      /\ \A i \in 1 .. n : L[i].dir = rows[i].dir
  BY ServiceListIs DEF Typed, TypeOK
<1>2. Publish(L) /\ CheckBeforeSaving(L) /\ stored' = [i \in DOMAIN L |-> Encoded(L[i])]
  BY DEF Save
<1>3. \A i \in 1 .. n : /\ L[i] \in Service /\ L[i].dir # NoDir /\ L[i].dir \in Dirs
                        /\ stored'[i][1] = L[i].dir[1]
  BY <1>1, <1>2, ElementOfSeq, EncodedIs DEF CheckBeforeSaving
<1>4. DOMAIN stored' = 1 .. n
  BY <1>1, <1>2
<1> HIDE DEF L, n
<1>5. ASSUME NEW i \in 1 .. n, NEW j \in 1 .. n, i # j, L[i].dir = L[j].dir
      PROVE  \A e : e = L[i].dir => Unchecked(e)'
  BY <1>1, <1>5 DEF DuplicatesExplained
<1>6. TorExplained'
  <2>1. CASE UNCHANGED tor
    BY <2>1 DEF TorExplained
  <2>2. CASE \E f \in [DOMAIN tor' -> 1 .. Len(L)] :
                /\ \A i \in DOMAIN tor' : tor'[i].dir = L[f[i]].dir
                /\ \A i, j \in DOMAIN tor' : i # j => f[i] # f[j]
    <3>1. PICK f \in [DOMAIN tor' -> 1 .. Len(L)] :
             /\ \A i \in DOMAIN tor' : tor'[i].dir = L[f[i]].dir
             /\ \A i, j \in DOMAIN tor' : i # j => f[i] # f[j]
      BY <2>2
    <3>2. ASSUME NEW i \in DOMAIN tor', NEW j \in DOMAIN tor', i # j, tor'[i].dir = tor'[j].dir
          PROVE  Unchecked(tor[i].dir)'
      <4>1. f[i] \in 1 .. n /\ f[j] \in 1 .. n /\ f[i] # f[j] /\ L[f[i]].dir = L[f[j]].dir
        BY <1>1, <3>1, <3>2
      <4>2. PICK e : e = L[f[i]].dir
        OBVIOUS
      <4>3. Unchecked(e)' /\ tor'[i].dir = e
        BY <1>5, <3>1, <4>1, <4>2
      <4> QED BY <4>3
    <3> QED BY <3>2 DEF TorExplained
  <2> QED BY <1>1, <1>2, <2>1, <2>2, PublishedIs DEF Typed
<1>7. ASSUME NEW i \in 1 .. n, NEW j \in 1 .. n, i # j, stored'[i][1] = stored'[j][1]
      PROVE  Unchecked(<<stored[i][1]>>)'
  <2>1. PICK m \in Names : m = stored'[i][1] /\ m = L[i].dir[1] /\ m = L[j].dir[1]
    BY <1>3, <1>7, DirsAre
  <2>2. CASE m \in HashNames
    BY <2>1, <2>2 DEF Unchecked
  <2>3. CASE m \notin HashNames
    <3>1. L[i].dir = <<m>> /\ L[j].dir = <<m>>
      BY <1>3, <2>1, <2>3, DirsAre
    <3>2. Unchecked(<<m>>)'
      BY <1>5, <1>7, <3>1
    <3> QED BY <2>1, <3>2
  <2> QED BY <2>2, <2>3
<1>8. StoredExplained'
  BY <1>4, <1>7 DEF StoredExplained
<1> QED BY <1>6, <1>8

LEMMA StepExplained == Typed /\ Explained /\ [Next]_vars => Explained'
<1> SUFFICES ASSUME Typed, Explained, [Next]_vars PROVE Explained'
  OBVIOUS
<1> USE DEF Explained
<1>1. \A e : Unchecked(e) => Unchecked(e)'
  BY UncheckedGrows
<1>2. TypeOK /\ TypeOK'
  BY StepTyped DEF Typed
<1>3. UNCHANGED tor => TorExplained'
  BY <1>1 DEF TorExplained
<1>4. UNCHANGED stored => StoredExplained'
  BY <1>1 DEF StoredExplained
<1>5. rows' = <<>> => KeptExplained' /\ DuplicatesExplained'
  BY DEF KeptExplained, DuplicatesExplained
<1>6. UNCHANGED rows => KeptExplained' /\ DuplicatesExplained'
  BY <1>1 DEF KeptExplained, DuplicatesExplained
<1>7. CASE ShowWindow
  <2>1. UNCHANGED <<tor, stored>> /\ rows' = [i \in DOMAIN CompleteList |-> LoadedRow(CompleteList[i])]
    BY <1>7 DEF ShowWindow
  <2> QED BY <1>1, <1>2, <1>3, <1>4, <2>1, LoadedExplained
<1>8. CASE Close
  BY <1>3, <1>4, <1>5, <1>8 DEF Close, HideTable
<1>9. CASE Click
  <2>1. UNCHANGED <<tor, stored>>
    BY <1>9 DEF Click, Acts
  <2>2. PICK c \in Cells(Len(rows)) : SelectionChanged(rows, services, c, dropped)
    BY <1>9 DEF Click
  <2>3. /\ Len(rows') = Len(rows)
        /\ \A i \in 1 .. Len(rows) : rows'[i].dir = rows[i].dir /\ rows'[i].kept = rows[i].kept
    BY <1>2, <2>2, TypedAgree, Selecting DEF Typed, TypeOK
  <2>4. KeptExplained' /\ DuplicatesExplained'
    <3>1. DOMAIN rows = 1 .. Len(rows) /\ DOMAIN rows' = 1 .. Len(rows)
      BY <1>2, <2>3 DEF TypeOK
    <3> QED BY <1>1, <2>3, <3>1 DEF KeptExplained, DuplicatesExplained
  <2> QED BY <1>3, <1>4, <2>1, <2>4
<1>10. CASE MoveByKey
  BY <1>3, <1>4, <1>6, <1>10 DEF MoveByKey, Acts
<1>11. CASE AddService
  <2>1. UNCHANGED <<tor, stored>>
    BY <1>11 DEF AddService, Acts
  <2> DEFINE r == [dir |-> NoDir, kept |-> NoDir, box |-> TRUE, fixed |-> FALSE]
             n == Len(rows) + 1
  <2>2. r \in Row /\ r.dir = NoDir /\ r.kept = NoDir
    BY DEF Row, AnyDir
  <2>3. rows' = Append(rows, r)
    BY <1>11 DEF AddService
  <2> HIDE DEF r
  <2>4. /\ Len(rows') = n /\ rows'[n] = r
        /\ \A i \in 1 .. Len(rows) : rows'[i] = rows[i]
    BY <1>2, <2>2, <2>3, AppendProperties DEF TypeOK
  <2>5. DOMAIN rows = 1 .. Len(rows) /\ DOMAIN rows' = 1 .. n /\ Len(rows) \in Nat
    BY <1>2, <2>4 DEF TypeOK
  <2>6. \A i \in 1 .. n : i = n \/ i \in 1 .. Len(rows)
    BY <2>5
  <2> HIDE DEF n
  <2>7. Unchecked(NoDir)'
    BY DEF Unchecked
  <2>8. KeptExplained'
    <3>1. ASSUME NEW i \in 1 .. n PROVE rows'[i].kept = rows'[i].dir \/ Unchecked(rows[i].kept)'
      BY <1>1, <2>2, <2>4, <2>5, <2>6 DEF KeptExplained
    <3> QED BY <2>5, <3>1 DEF KeptExplained
  <2>9. DuplicatesExplained'
    <3>1. ASSUME NEW i \in 1 .. n, NEW j \in 1 .. n, i # j, rows'[i].dir = rows'[j].dir
          PROVE  Unchecked(rows[i].dir)'
      <4>1. CASE i = n \/ j = n
        BY <2>2, <2>4, <2>7, <3>1, <4>1
      <4>2. CASE i \in 1 .. Len(rows) /\ j \in 1 .. Len(rows)
        BY <1>1, <2>4, <2>5, <3>1, <4>2 DEF DuplicatesExplained
      <4> QED BY <2>6, <4>1, <4>2
    <3> QED BY <2>5, <3>1 DEF DuplicatesExplained
  <2> QED BY <1>3, <1>4, <2>1, <2>8, <2>9
<1>12. CASE RemoveService
  <2>1. UNCHANGED <<tor, stored>>
    BY <1>12 DEF RemoveService, Acts
  <2> DEFINE k == cell.row
             R == RemoveAt(rows, k)
             S == Shifted(k)
             D == dropped \cup Lost(rows[k].dir)
             C == IF Len(rows) = 1 THEN {NoCell} ELSE Cells(Len(rows) - 1)
  <2>2. k \in 1 .. Len(rows) /\ rows \in Seq(Row) /\ Len(rows) \in Nat /\ Len(rows) <= MaxRows
    BY <1>12, CellIs DEF RemoveService, Typed, TypeOK
  <2>3. /\ R \in Seq(Row) /\ Len(R) = Len(rows) - 1
        /\ \A i \in 1 .. Len(rows) - 1 : R[i] = IF i < k THEN rows[i] ELSE rows[i + 1]
    BY <2>2, RowRemoved
  <2>4. PICK c \in C : SelectionChanged(R, S, c, D)
    BY <1>12 DEF RemoveService
  <2>5. S \in [DOMAIN S -> Service] /\ Agree(R, S)
    BY <2>2, KeysShifted DEF Typed
  <2>6. D \subseteq Dirs
    <3>1. rows[k] \in Row
      BY <2>2, ElementOfSeq
    <3> QED BY <1>2, <3>1 DEF Lost, Row, AnyDir, TypeOK
  <2>7. c = NoCell \/ c \in Cells(Len(R))
    BY <2>3
  <2> HIDE DEF R, S, D, C
  <2>8. /\ Len(rows') = Len(rows) - 1
        /\ \A i \in 1 .. Len(rows) - 1 : rows'[i].dir = R[i].dir /\ rows'[i].kept = R[i].kept
    BY <2>3, <2>4, <2>5, <2>6, <2>7, Selecting
  <2>9. PICK g \in [1 .. Len(rows) - 1 -> 1 .. Len(rows)] :
           /\ \A i \in 1 .. Len(rows) - 1 : R[i] = rows[g[i]]
           /\ \A i, j \in 1 .. Len(rows) - 1 : i # j => g[i] # g[j]
    <3> DEFINE g == [i \in 1 .. Len(rows) - 1 |-> IF i < k THEN i ELSE i + 1]
    <3>1. g \in [1 .. Len(rows) - 1 -> 1 .. Len(rows)]
      BY <2>2
    <3>2. \A i \in 1 .. Len(rows) - 1 : R[i] = rows[g[i]]
      BY <2>3
    <3>3. \A i, j \in 1 .. Len(rows) - 1 : i # j => g[i] # g[j]
      BY <2>2
    <3> HIDE DEF g
    <3> QED BY <3>1, <3>2, <3>3
  <2>10. DOMAIN rows = 1 .. Len(rows) /\ DOMAIN rows' = 1 .. Len(rows) - 1
    BY <1>2, <2>2, <2>8 DEF TypeOK
  <2>11. \A i \in DOMAIN rows' : /\ g[i] \in DOMAIN rows
                                 /\ rows'[i].dir = rows[g[i]].dir /\ rows'[i].kept = rows[g[i]].kept
    BY <2>8, <2>9, <2>10
  <2>12. \A i, j \in DOMAIN rows' : i # j => g[i] # g[j]
    BY <2>9, <2>10
  <2>13. KeptExplained' /\ DuplicatesExplained'
    <3>1. ASSUME NEW i \in DOMAIN rows'
          PROVE  rows'[i].kept = rows'[i].dir \/ Unchecked(rows[i].kept)'
      BY <1>1, <2>11 DEF KeptExplained
    <3>2. ASSUME NEW i \in DOMAIN rows', NEW j \in DOMAIN rows', i # j,
                 rows'[i].dir = rows'[j].dir
          PROVE  Unchecked(rows[i].dir)'
      BY <1>1, <2>11, <2>12, <3>2 DEF DuplicatesExplained
    <3> QED BY <3>1, <3>2 DEF KeptExplained, DuplicatesExplained
  <2> QED BY <1>3, <1>4, <2>1, <2>13
<1>13. CASE EditCell
  <2>1. UNCHANGED <<tor, stored>> /\ cell.column = "dir"
    BY <1>13 DEF EditCell, Acts
  <2>2. cell \in Cells(Len(rows))
    BY <2>1, CellIs DEF Columns
  <2>3. PICK d \in AnyDir : rows' = ValueChanged([rows EXCEPT ![cell.row].dir = d])
    BY <1>13 DEF EditCell, AnyDir
  <2>4. Erased(rows'[cell.row]) \subseteq erased'
    BY <1>13 DEF EditCell
  <2>5. KeptExplained' /\ DuplicatesExplained'
    BY <1>1, <1>2, <2>1, <2>2, <2>3, <2>4, ChangedRowExplained
  <2> QED BY <1>3, <1>4, <2>1, <2>5
<1>14. CASE BrowseDirectory
  <2>1. UNCHANGED <<tor, stored>> /\ (cell.column # "dir" => browsed')
    BY <1>14 DEF BrowseDirectory, Acts
  <2>2. cell \in Cells(Len(rows))
    BY <1>14, CellIs DEF BrowseDirectory
  <2>3. PICK d \in Dirs : rows' = ValueChanged([rows EXCEPT ![cell.row].dir = d])
    BY <1>14 DEF BrowseDirectory
  <2>4. d \in AnyDir /\ d # NoDir
    BY DirsAre DEF AnyDir
  <2>5. KeptExplained' /\ DuplicatesExplained'
    BY <1>1, <1>2, <2>1, <2>2, <2>3, <2>4, ChangedRowExplained
  <2> QED BY <1>3, <1>4, <2>1, <2>5
<1>15. CASE Save
  <2>1. rows' = <<>> \/ UNCHANGED rows
    BY <1>15 DEF Save, HideTable
  <2> QED BY <1>1, <1>5, <1>6, <1>15, <2>1, SavedExplained
<1>16. CASE LinkChanges
  BY <1>3, <1>4, <1>6, <1>16 DEF LinkChanges, table
<1>17. CASE OtherConf
  <2>1. UNCHANGED <<stored, rows>> /\ \A i, j \in DOMAIN tor' : i = j
    <3>1. PICK s \in Published : tor' = <<>> \/ tor' = <<s>>
      BY <1>17 DEF OtherConf
    <3>2. \A i, j \in DOMAIN tor' : i = j
      <4>1. DOMAIN tor' = {} \/ DOMAIN tor' = {1}
        BY <3>1
      <4> QED BY <4>1
    <3> QED BY <1>17, <3>2 DEF OtherConf, table
  <2>2. TorExplained'
    BY <2>1 DEF TorExplained
  <2> QED BY <1>4, <1>6, <2>1, <2>2
<1>18. CASE UNCHANGED vars
  BY <1>3, <1>4, <1>6, <1>18 DEF vars, table
<1> QED
  BY <1>7, <1>8, <1>9, <1>10, <1>11, <1>12, <1>13, <1>14, <1>15, <1>16, <1>17, <1>18 DEF Next

LEMMA InitExplained == Init => Explained
<1> SUFFICES ASSUME Init PROVE Explained
  OBVIOUS
<1>1. \A i, j \in DOMAIN tor : i = j
  <2>1. tor = <<>> \/ \E s \in Published : tor = <<s>>
    BY DEF Init
  <2>2. DOMAIN tor = {} \/ DOMAIN tor = {1}
    BY <2>1
  <2> QED BY <2>2
<1>2. DOMAIN rows = {} /\ DOMAIN stored = {}
  BY DEF Init
<1> QED
  BY <1>1, <1>2 DEF Explained, TorExplained, StoredExplained, KeptExplained, DuplicatesExplained

\* "Directory already in use by another service.": it is what valueChanged() checks, and a
\* directory that two services of the table have all the same was never checked by it: one
\* that was browsed for, one that the warning gave back, or one cut at its "#".
THEOREM DuplicateDirectories == Spec => []DuplicatesExplained
<1>1. Typed /\ Explained => DuplicatesExplained
  BY DEF Explained
<1> QED BY <1>1, InitTyped, StepTyped, InitExplained, StepExplained, PTL DEF Spec

------------------------------------------------------------------------------
(* What is taken away from Tor *)

\* While the page is not blind, whatever Tor publishes has a ticked row or was dropped.
Ticked(dir) == \E j \in DOMAIN rows : rows[j].dir = dir /\ rows[j].box
Offered == shown /\ ~blind => \A i \in DOMAIN tor : tor[i].dir \in dropped \/ Ticked(tor[i].dir)

LEMMA TorDirs == TypeOK => \A i \in DOMAIN tor : tor[i].dir \in Dirs /\ tor[i].dir # NoDir
<1> SUFFICES ASSUME TypeOK, NEW i \in DOMAIN tor PROVE tor[i].dir \in Dirs /\ tor[i].dir # NoDir
  OBVIOUS
<1>1. tor[i] \in Published
  BY ElementOfSeq DEF TypeOK
<1> QED BY <1>1, DirsAre DEF Published

\* A step that keeps what is ticked or records it as dropped.
LEMMA StaysOffered ==
    ASSUME Offered, UNCHANGED <<tor, shown, blind>>, dropped \subseteq dropped',
           \A i \in DOMAIN tor : Ticked(tor[i].dir) => \/ tor[i].dir \in dropped'
                                                       \/ Ticked(tor[i].dir)'
    PROVE  Offered'
BY DEF Offered

\* The row k gets another directory.
LEMMA RenamedStaysOffered ==
    ASSUME Typed, Offered, UNCHANGED <<tor, shown, blind>>, cell \in Cells(Len(rows)),
           NEW d \in AnyDir, rows' = ValueChanged([rows EXCEPT ![cell.row].dir = d]),
           dropped' = dropped \cup Renamed
    PROVE  Offered'
<1>1. PICK k : k = cell.row
  OBVIOUS
<1>2. /\ Len(rows') = Len(rows) /\ rows' \in Seq(Row)
      /\ \A i \in 1 .. Len(rows) : i # k => rows'[i] = rows[i]
      /\ rows'[k].box = rows[k].box
  BY <1>1, Changing DEF Typed
<1>3. k \in 1 .. Len(rows) /\ DOMAIN rows = 1 .. Len(rows) /\ DOMAIN rows' = 1 .. Len(rows)
  <2>1. DOMAIN rows = 1 .. Len(rows)
    BY DEF Typed, TypeOK
  <2>2. DOMAIN rows' = 1 .. Len(rows)
    BY <1>2
  <2>3. k \in 1 .. Len(rows)
    BY <1>1 DEF Cells
  <2> QED BY <2>1, <2>2, <2>3
<1>4. ASSUME NEW i \in DOMAIN tor, Ticked(tor[i].dir)
      PROVE  tor[i].dir \in dropped' \/ Ticked(tor[i].dir)'
  <2>1. PICK j \in 1 .. Len(rows) : rows[j].dir = tor[i].dir /\ rows[j].box
    BY <1>3, <1>4 DEF Ticked
  <2>2. tor[i].dir # NoDir
    BY TorDirs DEF Typed
  <2>3. CASE rows'[j].dir = rows[j].dir
    <3>1. rows'[j].dir = tor'[i].dir /\ rows'[j].box
      BY <1>2, <2>1, <2>3
    <3> QED BY <1>3, <3>1 DEF Ticked
  <2>4. CASE rows'[j].dir # rows[j].dir
    <3>1. j = k
      BY <1>2, <2>4
    <3>2. rows[j].dir \in Renamed
      BY <1>1, <2>1, <2>2, <2>4, <3>1 DEF Renamed, Lost
    <3> QED BY <2>1, <3>2
  <2> QED BY <2>3, <2>4
<1> QED BY <1>4, StaysOffered

\* A selection, of a table whose ticked rows are offered.
LEMMA SelectedStaysOffered ==
    ASSUME Typed, UNCHANGED <<tor, shown, blind>>,
           NEW STATE R, R \in Seq(Row), NEW STATE S, S \in [DOMAIN S -> Service],
           Agree(R, S), NEW c, c = NoCell \/ c \in Cells(Len(R)),
           NEW STATE D, D \subseteq Dirs, SelectionChanged(R, S, c, D),
           shown /\ ~blind => \A i \in DOMAIN tor :
              tor[i].dir \in D \/ \E j \in 1 .. Len(R) : R[j].dir = tor[i].dir /\ R[j].box
    PROVE  Offered'
<1>1. /\ Len(rows') = Len(R) /\ D \subseteq dropped' /\ rows' \in Seq(Row)
      /\ \A i \in 1 .. Len(R) :
            /\ rows'[i].dir = R[i].dir
            /\ R[i].box /\ ~rows'[i].box => R[i].dir \in dropped' \cup {NoDir}
  BY Selecting
<1>2. DOMAIN rows' = 1 .. Len(R)
  BY <1>1
<1>3. ASSUME shown, ~blind, NEW i \in DOMAIN tor
      PROVE  tor[i].dir \in dropped' \/ Ticked(tor[i].dir)'
  <2>1. CASE tor[i].dir \in D
    BY <1>1, <2>1
  <2>2. CASE \E j \in 1 .. Len(R) : R[j].dir = tor[i].dir /\ R[j].box
    <3>1. PICK j \in 1 .. Len(R) : R[j].dir = tor[i].dir /\ R[j].box
      BY <2>2
    <3>2. tor[i].dir # NoDir
      BY TorDirs DEF Typed
    <3>3. rows'[j].dir = tor'[i].dir /\ (rows'[j].box \/ tor[i].dir \in dropped')
      BY <1>1, <3>1, <3>2
    <3> QED BY <1>2, <3>3 DEF Ticked
  <2> QED BY <1>3, <2>1, <2>2
<1> QED BY <1>3 DEF Offered

LEMMA StepOffered == Typed /\ Offered /\ [Next]_vars => Offered'
<1> SUFFICES ASSUME Typed, Offered, [Next]_vars PROVE Offered'
  OBVIOUS
<1>1. ASSUME UNCHANGED <<tor, rows, shown, blind, dropped>> PROVE Offered'
  BY <1>1 DEF Offered, Ticked
<1>2. CASE ShowWindow
  <2>1. /\ shown' = TRUE /\ tor' = tor /\ blind' = (link = "Down")
        /\ rows' = [i \in DOMAIN CompleteList |-> LoadedRow(CompleteList[i])]
    BY <1>2 DEF ShowWindow
  <2>2. ASSUME ~blind', NEW i \in DOMAIN tor PROVE Ticked(tor[i].dir)'
    <3>1. link = "Authed"
      BY <2>1, <2>2 DEF Typed, TypeOK
    <3>2. /\ i \in DOMAIN FromTor /\ FromTor[i].dir = tor[i].dir /\ FromTor[i].enabled = TRUE
          /\ i \in DOMAIN CompleteList /\ CompleteList[i] = FromTor[i]
      BY <3>1, FromTorIs, CompleteListIs DEF Typed
    <3>3. i \in DOMAIN rows' /\ rows'[i].dir = tor'[i].dir /\ rows'[i].box
      BY <2>1, <3>2 DEF LoadedRow
    <3> QED BY <3>3 DEF Ticked
  <2> QED BY <2>1, <2>2 DEF Offered
<1>3. CASE Close
  BY <1>3 DEF Close, HideTable, Offered
<1>4. CASE Click
  <2>1. UNCHANGED <<tor, shown, blind>>
    BY <1>4 DEF Click, Acts
  <2>2. PICK c \in Cells(Len(rows)) : SelectionChanged(rows, services, c, dropped)
    BY <1>4 DEF Click
  <2>3. /\ rows \in Seq(Row) /\ services \in [DOMAIN services -> Service] /\ Agree(rows, services)
        /\ dropped \subseteq Dirs /\ DOMAIN rows = 1 .. Len(rows)
    BY TypedAgree DEF Typed, TypeOK
  <2>4. shown /\ ~blind => \A i \in DOMAIN tor : tor[i].dir \in dropped
           \/ \E j \in 1 .. Len(rows) : rows[j].dir = tor[i].dir /\ rows[j].box
    BY <2>3 DEF Offered, Ticked
  <2> QED BY <2>1, <2>2, <2>3, <2>4, SelectedStaysOffered
<1>5. CASE MoveByKey
  BY <1>1, <1>5 DEF MoveByKey, Acts, history
<1>6. CASE AddService
  <2> DEFINE r == [dir |-> NoDir, kept |-> NoDir, box |-> TRUE, fixed |-> FALSE]
  <2>1. UNCHANGED <<tor, shown, blind, dropped>> /\ rows' = Append(rows, r)
    BY <1>6 DEF AddService, Acts, history
  <2>2. r \in Row
    BY DEF Row, AnyDir
  <2> HIDE DEF r
  <2>3. /\ DOMAIN rows \subseteq DOMAIN rows'
        /\ \A j \in DOMAIN rows : rows'[j] = rows[j]
    BY <2>1, <2>2, AppendProperties DEF Typed, TypeOK
  <2>4. ASSUME NEW i \in DOMAIN tor, Ticked(tor[i].dir) PROVE Ticked(tor[i].dir)'
    BY <2>1, <2>3, <2>4 DEF Ticked
  <2> QED BY <2>1, <2>4, StaysOffered
<1>7. CASE RemoveService
  <2>1. UNCHANGED <<tor, shown, blind>>
    BY <1>7 DEF RemoveService, Acts
  <2> DEFINE k == cell.row
             R == RemoveAt(rows, k)
             S == Shifted(k)
             D == dropped \cup Lost(rows[k].dir)
             C == IF Len(rows) = 1 THEN {NoCell} ELSE Cells(Len(rows) - 1)
  <2>2. k \in 1 .. Len(rows) /\ rows \in Seq(Row) /\ Len(rows) \in Nat /\ DOMAIN rows = 1 .. Len(rows)
    BY <1>7, CellIs DEF RemoveService, Typed, TypeOK
  <2>3. /\ R \in Seq(Row) /\ Len(R) = Len(rows) - 1
        /\ \A i \in 1 .. Len(rows) - 1 : R[i] = IF i < k THEN rows[i] ELSE rows[i + 1]
    BY <2>2, RowRemoved
  <2>4. PICK c \in C : SelectionChanged(R, S, c, D)
    BY <1>7 DEF RemoveService
  <2>5. S \in [DOMAIN S -> Service] /\ Agree(R, S)
    BY <2>2, KeysShifted DEF Typed
  <2>6. D \subseteq Dirs
    <3>1. rows[k] \in Row
      BY <2>2, ElementOfSeq
    <3> QED BY <3>1 DEF Lost, Row, AnyDir, Typed, TypeOK
  <2>7. c = NoCell \/ c \in Cells(Len(R))
    BY <2>3
  <2>8. D = dropped \cup Lost(rows[k].dir)
    OBVIOUS
  <2> HIDE DEF R, S, D, C, k
  <2>9. ASSUME shown, ~blind, NEW i \in DOMAIN tor
        PROVE  tor[i].dir \in D \/ \E j \in 1 .. Len(R) : R[j].dir = tor[i].dir /\ R[j].box
    <3>1. CASE tor[i].dir \in dropped
      BY <2>8, <3>1
    <3>2. CASE Ticked(tor[i].dir)
      <4>1. PICK j \in 1 .. Len(rows) : rows[j].dir = tor[i].dir /\ rows[j].box
        BY <2>2, <3>2 DEF Ticked
      <4>2. CASE j = k
        BY <2>8, <4>1, <4>2, TorDirs DEF Lost, Typed
      <4>3. CASE j < k
        <5>1. j \in 1 .. Len(R) /\ R[j] = rows[j]
          BY <2>2, <2>3, <4>3
        <5> QED BY <4>1, <5>1
      <4>4. CASE k < j
        <5>1. j - 1 \in 1 .. Len(R) /\ ~ (j - 1 < k) /\ (j - 1) + 1 = j
          BY <2>2, <2>3, <4>4
        <5>2. R[j - 1] = rows[j]
          BY <2>3, <5>1
        <5> QED BY <4>1, <5>1, <5>2
      <4> QED BY <2>2, <4>2, <4>3, <4>4
    <3> QED BY <2>9, <3>1, <3>2 DEF Offered
  <2> QED BY <2>1, <2>3, <2>4, <2>5, <2>6, <2>7, <2>9, SelectedStaysOffered
<1>8. CASE EditCell
  <2>1. /\ UNCHANGED <<tor, shown, blind>> /\ cell.column = "dir"
        /\ dropped' = dropped \cup Renamed
    BY <1>8 DEF EditCell, Acts
  <2>2. cell \in Cells(Len(rows))
    BY <2>1, CellIs DEF Columns
  <2>3. PICK d \in AnyDir : rows' = ValueChanged([rows EXCEPT ![cell.row].dir = d])
    BY <1>8 DEF EditCell, AnyDir
  <2> QED BY <2>1, <2>2, <2>3, RenamedStaysOffered
<1>9. CASE BrowseDirectory
  <2>1. UNCHANGED <<tor, shown, blind>> /\ dropped' = dropped \cup Renamed
    BY <1>9 DEF BrowseDirectory, Acts
  <2>2. cell \in Cells(Len(rows))
    BY <1>9, CellIs DEF BrowseDirectory
  <2>3. PICK d \in AnyDir : rows' = ValueChanged([rows EXCEPT ![cell.row].dir = d])
    BY <1>9 DEF BrowseDirectory, AnyDir
  <2> QED BY <2>1, <2>2, <2>3, RenamedStaysOffered
<1>10. CASE Save
  <2>1. CASE HideTable
    BY <2>1 DEF HideTable, Offered
  <2>2. CASE UNCHANGED <<shown, rows, torServices, cell, buttons, edits, history>>
    <3>1. UNCHANGED <<shown, rows, blind, dropped>>
      BY <2>2 DEF history
    <3>2. CASE UNCHANGED tor
      BY <1>1, <3>1, <3>2
    <3>3. CASE \E f \in [DOMAIN tor' -> 1 .. Len(ServiceList)] :
                  /\ \A i \in DOMAIN tor' : /\ tor'[i].dir = ServiceList[f[i]].dir
                                            /\ ServiceList[f[i]].enabled
                  /\ \A i, j \in DOMAIN tor' : i # j => f[i] # f[j]
      <4>1. PICK f \in [DOMAIN tor' -> 1 .. Len(ServiceList)] :
               \A i \in DOMAIN tor' : /\ tor'[i].dir = ServiceList[f[i]].dir
                                      /\ ServiceList[f[i]].enabled
        BY <3>3
      <4>2. /\ Len(ServiceList) = Len(rows) /\ DOMAIN rows = 1 .. Len(rows)
            /\ \A i \in 1 .. Len(rows) : /\ ServiceList[i].dir = rows[i].dir
                                         /\ ServiceList[i].enabled = rows[i].box
        BY ServiceListIs DEF Typed, TypeOK
      <4>3. \A i \in DOMAIN tor' : /\ f[i] \in DOMAIN rows
                                   /\ tor'[i].dir = rows[f[i]].dir /\ rows[f[i]].box
        BY <4>1, <4>2
      <4> QED BY <3>1, <4>3 DEF Offered, Ticked
    <3> QED BY <1>10, <3>2, <3>3, ServiceListIs, PublishedIs DEF Save, Typed
  <2> QED BY <1>10, <2>1, <2>2 DEF Save
<1>11. CASE LinkChanges
  BY <1>1, <1>11 DEF LinkChanges, table, history
<1>12. CASE OtherConf
  BY <1>12 DEF OtherConf, Offered
<1>13. CASE UNCHANGED vars
  BY <1>1, <1>13 DEF vars, table, history
<1> QED
  BY <1>2, <1>3, <1>4, <1>5, <1>6, <1>7, <1>8, <1>9, <1>10, <1>11, <1>12, <1>13 DEF Next

SavesWhatIsOffered ==
    Save => \A i \in DOMAIN tor :
               \/ blind \/ tor[i].dir \in dropped
               \/ \E j \in DOMAIN tor' : tor'[j].dir = tor[i].dir

LEMMA OfferedIsSaved == Typed /\ Offered /\ [Next]_vars => [SavesWhatIsOffered]_vars
<1> SUFFICES ASSUME Typed, Offered, Save, NEW i \in DOMAIN tor, ~blind, tor[i].dir \notin dropped
             PROVE  \E j \in DOMAIN tor' : tor'[j].dir = tor[i].dir
  BY DEF SavesWhatIsOffered
<1>1. CASE UNCHANGED tor
  BY <1>1
<1>2. CASE \A j \in 1 .. Len(ServiceList) : ServiceList[j].enabled =>
              \E m \in DOMAIN tor' : tor'[m].dir = ServiceList[j].dir
  <2>1. /\ DOMAIN rows = 1 .. Len(rows) /\ Len(ServiceList) = Len(rows)
        /\ \A j \in 1 .. Len(rows) : /\ ServiceList[j].dir = rows[j].dir
                                     /\ ServiceList[j].enabled = rows[j].box
    BY ServiceListIs DEF Typed, TypeOK
  <2>2. PICK j \in 1 .. Len(rows) : rows[j].dir = tor[i].dir /\ rows[j].box
    BY <2>1 DEF Offered, Ticked, Save
  <2> QED BY <1>2, <2>1, <2>2
<1> QED BY <1>1, <1>2, ServiceListIs, PublishedIs DEF Save, Typed

\* Saving takes no service away from Tor that the user has not removed, renamed or unticked,
\* unless Tor did not answer when the page was loaded or was configured otherwise since:
\* the configuration that save() sends has every other directory that Tor had, or none is sent.
THEOREM NothingUnpublished == Spec => UnpublishedKnowingly
<1>1. Init => Offered
  BY DEF Init, Offered
<1>2. [SavesWhatIsOffered]_vars =>
         [Save => \A i \in DOMAIN tor :
            \/ blind \/ tor[i].dir \in dropped
            \/ \E j \in DOMAIN tor' : tor'[j].dir = tor[i].dir]_vars
  BY DEF SavesWhatIsOffered
<1> QED
  BY <1>1, <1>2, InitTyped, StepTyped, StepOffered, OfferedIsSaved, PTL
     DEF Spec, UnpublishedKnowingly

==============================================================================
