--------------------------- MODULE ControlValues ---------------------------
(***************************************************************************)
(* What the lines of Tor's replies and events mean: circuits, streams,     *)
(* relays, descriptors, address mappings, bootstrap phases, versions and   *)
(* ports (torcontrol/Circuit.cpp, Stream.cpp, RouterStatus.cpp,            *)
(* RouterDescriptor.cpp, AddressMap.cpp, BootstrapStatus.cpp, tcglobal.cpp *)
(* and the wrappers of TorControl.cpp that read them).                     *)
(*                                                                         *)
(* A line has been split into its words; it is a record of those that are  *)
(* used, where Nothing stands for a word that does not parse, or is not    *)
(* there.  The case of keywords does not matter.                           *)
(***************************************************************************)
EXTENDS Integers, Sequences, FiniteSets, SequencesExt, FiniteSetsExt

Nothing == "nothing"
Known(table, word, otherwise) == IF word \in DOMAIN table THEN table[word] ELSE otherwise
Field(keyvals, key) == Known(keyvals, key, Nothing)

------------------------------------------------------------------------------
(* Circuits and streams *)

ValidId(id) == id # Nothing /\ Len(id) <= 16
Invalid == [valid |-> FALSE]

CircuitStatus ==
    [LAUNCHED |-> "Launched", BUILT |-> "Built", EXTENDED |-> "Extended",
     FAILED |-> "Failed", CLOSED |-> "Closed"]

\* Circuit(QString): hops is the third word, if it is a path, each hop split at its name.
CircuitOf(line) ==
    IF line.status = Nothing \/ ~ValidId(line.id) \/ \E i \in DOMAIN line.hops : Len(line.hops[i]) # 2
    THEN Invalid
    ELSE [valid |-> TRUE, id |-> line.id, status |-> Known(CircuitStatus, line.status, "Unknown"),
          ids |-> [i \in DOMAIN line.hops |-> line.hops[i][1]],
          names |-> [i \in DOMAIN line.hops |-> line.hops[i][2]]]

StreamStatus ==
    [NEW |-> "New", NEWRESOLVE |-> "NewResolve", SENTCONNECT |-> "SentConnect",
     SENTRESOLVE |-> "SentResolve", SUCCEEDED |-> "Succeeded", FAILED |-> "Failed",
     CLOSED |-> "Closed", DETACHED |-> "Detached", REMAP |-> "Remap"]

\* Stream::fromString() and isValid(); a target without ":" is a port.
StreamOf(line) ==
    IF ValidId(line.id) /\ ValidId(line.circuit) /\ line.status \in DOMAIN StreamStatus
       /\ line.address # Nothing
    THEN [valid |-> TRUE, id |-> line.id, status |-> StreamStatus[line.status],
          circuit |-> line.circuit, address |-> line.address, port |-> line.port]
    ELSE Invalid

\* statusString(), as the lists show it
CircuitShown ==
    [Launched |-> "New", Built |-> "Open", Extended |-> "Building", Failed |-> "Failed",
     Closed |-> "Closed", Unknown |-> "Unknown"]
StreamShown ==
    [New |-> "New", NewResolve |-> "Resolving", SentResolve |-> "Resolving",
     SentConnect |-> "Connecting", Succeeded |-> "Open", Failed |-> "Failed",
     Closed |-> "Closed", Detached |-> "Retrying", Remap |-> "Remapped"]

\* getCircuits() and getStreams(): a circuit on the line of the reply itself is not read.
ValidOf(read) == SelectSeq(read, LAMBDA x : x.valid)
GetCircuits(reply) == ValidOf([i \in DOMAIN reply.data |-> CircuitOf(reply.data[i])])
GetStreams(reply) ==
    ValidOf(<<StreamOf(reply.message)>> \o [i \in DOMAIN reply.data |-> StreamOf(reply.data[i])])

\* isCircuitEstablished(): what Tor says, or one of its circuits if it does not.
CircuitEstablished(version, answer, circuits) ==
    IF version >= 131073 /\ answer # Nothing THEN answer = "1"
    ELSE \E i \in DOMAIN circuits : circuits[i].status = "Built"

------------------------------------------------------------------------------
(* Relays *)

Flags == {"Authority", "BadExit", "BadDirectory", "Exit", "Fast", "Guard", "HSDir", "Named",
          "Running", "Stable", "Valid", "V2Dir", "V3Dir"}
NoRelay == [valid |-> FALSE, flags |-> {}, bandwidth |-> 0]

\* RouterStatus(QStringList): the first line "r" that does not parse ends it.
Identity == {"name", "id", "digest", "published", "ip", "orPort", "dirPort"}
Complete(line) == \A k \in Identity : line[k] # Nothing
RouterStatusOf(lines) ==
    LET broken == SelectInSeq(lines, LAMBDA l : l.key = "r" /\ ~Complete(l))
        read == IF broken = 0 THEN lines ELSE SubSeq(lines, 1, broken - 1)
        Read(relay, l) ==
            CASE l.key = "r" -> [k \in Identity |-> l[k]] @@ [relay EXCEPT !.valid = TRUE]
              [] l.key = "s" -> [relay EXCEPT !.flags = @ \cup (l.flags \cap Flags)]
              [] l.key = "w" -> [relay EXCEPT !.bandwidth = l.bandwidth]
              [] OTHER -> relay
    IN  FoldLeft(Read, NoRelay, read)

\* getNetworkStatus(): a relay's lines go on to the next line "r".
GetNetworkStatus(lines) ==
    LET firsts == {i \in DOMAIN lines : i = 1 \/ lines[i].key = "r"}
        End(i) == Min({j - 1 : j \in {k \in firsts : k > i}} \cup {Len(lines)})
        order == SetToSortSeq(firsts, <)
    IN  ValidOf([n \in DOMAIN order |-> RouterStatusOf(SubSeq(lines, order[n], End(order[n])))])

\* RouterDescriptor: a full one, or a micro one, that takes the rest from the status.
Keyword(key) == CASE key = "opt fingerprint" -> "fingerprint" [] OTHER -> key
DescriptorOf(lines) ==
    LET Read(d, l) ==
            CASE l.key = "router" ->
                    [d EXCEPT !.name = l.name, !.ip = l.ip, !.orPort = l.orPort, !.dirPort = l.dirPort]
              [] l.key = "hibernating" -> IF l.value = "1" THEN [d EXCEPT !.status = "Hibernating"] ELSE d
              [] Keyword(l.key) = "fingerprint" -> [d EXCEPT !.id = l.value]
              [] l.key = "uptime" -> [d EXCEPT !.uptime = l.value]
              [] l.key = "bandwidth" -> [d EXCEPT !.observed = l.value]
              [] OTHER -> d
    IN  FoldLeft(Read, [status |-> "Online", name |-> "", id |-> "", ip |-> Nothing, orPort |-> 0,
                        dirPort |-> 0, uptime |-> 0, observed |-> 0], lines)
WithStatus(d, relay) ==
    [d EXCEPT !.name = relay.name, !.id = relay.id, !.ip = relay.ip, !.orPort = relay.orPort,
              !.dirPort = relay.dirPort, !.observed = relay.bandwidth * 1024]

\* useMicrodescriptors(), and the key that a descriptor is asked for by.
UseMicrodescriptors(use, fetchUseless) == use = "1" \/ (use = "auto" /\ fetchUseless = "0")

\* RouterDescriptorView::adjustUptime(), of a relay that has been up since it published.
AdjustUptime(uptime, published, now) == IF now < published THEN uptime ELSE uptime + now - published

------------------------------------------------------------------------------
(* Address mappings: from each address to another one, until a time or forever *)

Never == -1
AddMapping(map, from, to, expires) == (from :> [to |-> to, expires |-> expires]) @@ map
Expired(entry, now) == entry.expires # Never /\ entry.expires < now
IsMapped(map, address, now) == address \in DOMAIN map /\ ~Expired(map[address], now)
MappedTo(map, address, now) == IF IsMapped(map, address, now) THEN map[address].to ELSE Nothing

\* reverse(): of several addresses for one, whichever comes last.
Reversals(map) ==
    LET sources(to) == {from \in DOMAIN map : map[from].to = to}
        targets == {map[from].to : from \in DOMAIN map}
    IN  {[to \in targets |-> [to |-> pick[to], expires |-> map[pick[to]].expires]] :
            pick \in {f \in [targets -> DOMAIN map] : \A to \in targets : f[to] \in sources(to)}}

\* NetViewer::addStream() shows a new stream to an address that is mapped back to a name,
\* and no other new one.
StreamAdded(stream, back, now) ==
    IF stream.status # "New" THEN stream
    ELSE IF IsMapped(back, stream.address, now)
    THEN [stream EXCEPT !.address = MappedTo(back, stream.address, now)]
    ELSE Nothing

------------------------------------------------------------------------------
(* Phases, versions and ports *)

Severities == {"DEBUG", "INFO", "NOTICE", "WARN", "ERR"}
SeverityOf(word) == IF word \in Severities THEN word ELSE "Unrecognized"
Phases ==
    {"CONN_DIR", "HANDSHAKE_DIR", "ONEHOP_CREATE", "REQUESTING_STATUS", "LOADING_STATUS",
     "LOADING_KEYS", "REQUESTING_DESCRIPTORS", "LOADING_DESCRIPTORS", "CONN_OR",
     "HANDSHAKE_OR", "CIRCUIT_CREATE", "DONE"}
Reasons ==
    [MISC |-> "Miscellaneous", IDENTITY |-> "IdentityMismatch", RESOURCELIMIT |-> "ResourceLimit",
     DONE |-> "Done", CONNECTREFUSED |-> "Refused", CONNECTRESET |-> "Refused",
     TIMEOUT |-> "Timeout", NOROUTE |-> "NoRoute", IOERROR |-> "IoError"]
Actions == [WARN |-> "Warn", IGNORE |-> "Ignore"]
Bound(n) == IF n < 0 THEN 0 ELSE IF n > 100 THEN 100 ELSE n

\* BootstrapStatus, from the arguments of the phase; the number of no PROGRESS is 0.
PhaseOf(severity, kv) ==
    [severity |-> SeverityOf(severity),
     status |-> IF Field(kv, "TAG") \in Phases THEN kv.TAG ELSE "Unrecognized",
     percent |-> Bound(Known(kv, "PROGRESS", 0)), summary |-> Field(kv, "SUMMARY"),
     warning |-> Field(kv, "WARNING"), reason |-> Known(Reasons, Field(kv, "REASON"), "Unrecognized"),
     action |-> Known(Actions, Field(kv, "RECOMMENDATION"), "Unrecognized")]

\* getBootstrapPhase() reads the whole message as keys and values, the severity being the
\* value of the first key, and leaves out what is said of a problem.
GetBootstrapPhase(severity, kv) ==
    PhaseOf(severity, [k \in DOMAIN kv \ {"WARNING", "REASON", "RECOMMENDATION"} |-> kv[k]])

\* getTorVersion(), of the parts of a version; the parts are quint8.
VersionOf(parts) ==
    IF Len(parts) < 4 THEN 0
    ELSE FoldLeft(LAMBDA acc, i : acc * 256 + (parts[i] % 256), 0, <<1, 2, 3, 4>>)

\* getTorVersion() computes a version when the string is another one than the last time.
\* Of the versions that it is asked for one after the other, what it answers:
AnswersOf(strings, parts) ==
    LET Ask(acc, s) ==
            LET answer == IF s = acc.last THEN acc.version ELSE VersionOf(parts[s])
            IN  [last |-> s, version |-> answer, answers |-> Append(acc.answers, answer)]
    IN  FoldLeft(Ask, [last |-> "", version |-> 0, answers |-> <<>>], strings).answers

\* getSocksPortList(): port is Tor's SocksPort, or Unread; listens are the ports of the addresses
\* it listens on, 0 for one without.  The variable has any value, garbage, until it is read.
Unread == -1
SocksPorts(port, listens, garbage) ==
    LET given == SelectSeq(listens, LAMBDA p : p # 0)
        own == IF port = Unread THEN garbage ELSE port
    IN  IF port = 0 THEN <<>>
        ELSE IF given = <<>> \/ Len(given) # Len(listens) THEN Append(given, own) ELSE given
SocksPort(port, listens, garbage) ==
    LET ports == SocksPorts(port, listens, garbage) IN IF ports = <<>> THEN 0 ELSE ports[1]

\* TorEvents: the names of events, in the order that setEvents() lists them; OrConnStatus
\* is never asked for.
EventNames ==
    <<"BW", "DEBUG", "INFO", "NOTICE", "WARN", "ERR", "CIRC", "STREAM", "UNKNOWN", "NEWDESC",
      "ADDRMAP", "STATUS_GENERAL", "STATUS_CLIENT", "STATUS_SERVER">>
OrConnStatus == 9
SetEvents(events) ==
    LET order == SetToSortSeq(events, <) IN [i \in DOMAIN order |-> EventNames[order[i]]]
ToTorEvent(name) ==
    LET known == {e \in DOMAIN EventNames \ {OrConnStatus} : EventNames[e] = name}
    IN  IF known = {} THEN 0 ELSE CHOOSE e \in known : TRUE

\* ProtocolInfo, of the lines of a reply, by topic; those of another status are left out.
ProtocolInfoOf(lines) ==
    LET Read(pi, l) ==
            CASE l.topic = "AUTH" -> [pi EXCEPT !.methods = Known(l.kv, "METHODS", @),
                                                !.cookie = Known(l.kv, "COOKIEFILE", @)]
              [] l.topic = "VERSION" -> [pi EXCEPT !.version = Known(l.kv, "Tor", @)]
              [] OTHER -> pi
    IN  FoldLeft(Read, [methods |-> <<>>, cookie |-> Nothing, version |-> Nothing],
                 SelectSeq(lines, LAMBDA l : l.status = "250"))

------------------------------------------------------------------------------
(* Checks *)

\* How Tor writes a circuit, and the lines of a relay.
CircuitLine(c) ==
    [id |-> c.id, status |-> c.word, hops |-> [i \in DOMAIN c.ids |-> <<c.ids[i], c.names[i]>>]]
RelayLines(r) ==
    <<[k \in Identity |-> IF r.complete THEN r.name ELSE Nothing] @@ [key |-> "r"],
      [key |-> "s", flags |-> r.flags], [key |-> "v"]>>
    \o (IF r.bandwidth = 0 THEN <<>> ELSE <<[key |-> "w", bandwidth |-> r.bandwidth]>>)

\* Circuits are read from the data of the reply, in order, and what is said of one that
\* does not parse, as its hops have no names, is not mixed up with the others.
ASSUME CircuitsAreRead ==
    LET circuits == [id : {"1"}, word : {"BUILT", "CLOSED", "GUARD_WAIT"}, ids : {<<>>, <<"A", "B">>},
                     names : {<<"a", "b">>}]
        nameless == [id |-> "2", status |-> "BUILT", hops |-> <<<<"A">>>>]
    IN  \A c, d \in circuits :
            LET read == GetCircuits([data |-> <<CircuitLine(c), nameless, CircuitLine(d)>>])
            IN  /\ Len(read) = 2 /\ read[1].ids = c.ids /\ read[2].ids = d.ids
                /\ read[1].status = "Built" <=> c.word = "BUILT"

\* Each relay of the network's status has its own flags and bandwidth, though it may lack
\* the line of either, and one that does not parse takes no other with it.
ASSUME RelaysAreRead ==
    LET relays == [complete : BOOLEAN, name : {"x", "y"}, flags : {{}, {"Running", "Exit"}, {"Unheard"}},
                   bandwidth : {0, 20}]
    IN  \A r, q \in relays :
            LET read == GetNetworkStatus(RelayLines(r) \o RelayLines(q))
                given == SelectSeq(<<r, q>>, LAMBDA x : x.complete)
            IN  /\ Len(read) = Len(given)
                /\ \A i \in DOMAIN given :
                      /\ read[i].name = given[i].name /\ read[i].bandwidth = given[i].bandwidth
                      /\ read[i].flags = given[i].flags \ {"Unheard"}

\* A stream is shown under no name but one that Tor maps to its address, and the mapping
\* has not expired.
ASSUME NamesAreMapped ==
    LET entries == [to : {"1.1.1.1", "2.2.2.2"}, expires : {Never, 1, 3}]
    IN  \A map \in [{"a", "b"} -> entries], now \in 0 .. 4 : \A back \in Reversals(map) :
            \A to \in {"1.1.1.1", "2.2.2.2"} :
                LET from == MappedTo(back, to, now)
                IN  from # Nothing => MappedTo(map, from, now) = to

\* The version that is kept is never that of an earlier Tor, nor of one that has gone,
\* and comparing versions compares their parts.
ASSUME VersionsAreCurrent ==
    LET parts == [none |-> <<>>, old |-> <<0, 1, 2, 19>>, new |-> <<0, 2, 3, 25>>, odd |-> <<0, 2>>]
    IN  \A strings \in BoundedSeq(DOMAIN parts, 4) :
            AnswersOf(strings, parts) = [i \in DOMAIN strings |-> VersionOf(parts[strings[i]])]
ASSUME VersionsAreOrdered ==
    \A a, b \in [1 .. 3 -> {0, 1, 255}] :
        VersionOf(<<0>> \o a) < VersionOf(<<0>> \o b) <=>
            \E i \in 1 .. 3 : a[i] < b[i] /\ \A j \in 1 .. i - 1 : a[j] = b[j]

\* Every event that is asked for is recognized when it comes.
ASSUME EventsAreRecognized ==
    \A e \in DOMAIN EventNames \ {OrConnStatus} : ToTorEvent(SetEvents({e})[1]) = e

\* The port is one that Tor listens on, or 0 if there is none.  If Tor does not say, it may
\* be anything.
ASSUME SocksPortIsTors ==
    \A port \in {0, 9050}, listens \in BoundedSeq({0, 9100, 9200}, 2), garbage \in {0, 7} :
        LET p == SocksPort(port, listens, garbage)
        IN  /\ p = 0 <=> port = 0
            /\ p \in {0, port} \cup ToSet(listens)
=============================================================================
