------------------------------ MODULE TorPages ------------------------------
(***************************************************************************)
(* The Network and Advanced pages of the configuration dialog              *)
(* (vidalia/config/NetworkPage.cpp, AdvancedPage.cpp), the settings that   *)
(* they load and save (NetworkSettings.cpp, TorSettings.cpp), and what of  *)
(* them Tor is told, for each version of Tor.                              *)
(*                                                                         *)
(* A page is the record of its widgets and a group of settings the record  *)
(* of its values.  Module Settings has when they are saved, applied and    *)
(* brought back.                                                           *)
(***************************************************************************)
EXTENDS Integers, Sequences, FiniteSets, SequencesExt, FiniteSetsExt

\* Versions of Tor, as getTorVersion() computes them; 0 if there is none.
V(a, b, c, d) == ((a * 256 + b) * 256 + c) * 256 + d
Versions == {0, V(0, 2, 0, 2), V(0, 2, 0, 33), V(0, 2, 1, 30), V(0, 2, 2, 25), V(0, 2, 3, 25)}
HasSocks(version) == version >= V(0, 2, 2, 1)

------------------------------------------------------------------------------
(* The Network page *)

SocksTypes == {"socks4", "socks5"}
ProxyTypes == SocksTypes \cup {"httphttps"}

\* proxyTypeFromString()
ProxyTypeOf(string) == IF string \in ProxyTypes THEN string ELSE "none"

NetworkDefaults ==
    [type |-> "none", address |-> <<>>, user |-> "", pass |-> "", firewall |-> FALSE,
     ports |-> <<80, 443>>, useBridges |-> FALSE, bridges |-> <<>>]

\* addBridge(): names that differ in the case of letters are the same bridge.
AddBridge(bridges, input, folded) ==
    IF input = "" \/ \E b \in ToSet(bridges) : folded[b] = folded[input] THEN bridges
    ELSE Append(bridges, input)
RemoveBridges(bridges, selected) == SelectSeq(bridges, LAMBDA b : b \notin selected)

\* save(): an error that is found before anything is stored, a port that is none, which is
\* found after the proxy and the firewall were, or bridges that are missing.
Incomplete(page) ==
    \/ page.useProxy /\ (page.host = "" \/ page.port = "" \/ page.type = "none")
    \/ page.firewall /\ page.ports = <<>>
ProxySaved(s, page) ==
    [s EXCEPT !.type = IF page.useProxy THEN page.type ELSE "none",
              !.address = IF page.useProxy THEN <<page.host, page.port>> ELSE <<>>,
              !.user = IF page.useProxy THEN page.user ELSE "",
              !.pass = IF page.useProxy THEN page.pass ELSE "",
              !.firewall = page.firewall]
BadPort(page) == \E p \in ToSet(page.ports) : p \notin 1 .. 65535
PortsSaved(s, page) == IF page.ports = <<>> THEN s ELSE [s EXCEPT !.ports = page.ports]
SaveNetwork(s, page) ==
    LET proxy == ProxySaved(s, page)
        ports == PortsSaved(proxy, page)
    IN  IF Incomplete(page) THEN [ok |-> FALSE, settings |-> s]
        ELSE IF BadPort(page) THEN [ok |-> FALSE, settings |-> proxy]
        ELSE IF page.useBridges /\ page.bridges = <<>> THEN [ok |-> FALSE, settings |-> ports]
        ELSE [ok |-> TRUE, settings |-> [ports EXCEPT !.useBridges = page.useBridges,
                                                      !.bridges = page.bridges]]

\* NetworkSettings::apply(): the values of Tor's options; none sets an option back.
If(condition, value) == IF condition THEN <<value>> ELSE <<>>
Credentials(s) == If(s.user # "" \/ s.pass # "", <<s.user, s.pass>>)
Text(s) == If(s # "", s)
NetworkConf(s, version) ==
    LET bridges == s.useBridges /\ s.bridges # <<>>
        address == If(s.address # <<>>, s.address)
        Of(type) == IF s.type = type THEN address ELSE <<>>
        Tunnel == {"TunnelDirConns", "PreferTunneledDirConns"}
    IN  [ReachableAddresses |-> If(s.firewall, s.ports),
         HttpsProxy |-> Of("httphttps"), HttpsProxyAuthenticator |-> Credentials(s)]
        @@ (IF ~HasSocks(version) THEN <<>>
            ELSE [Socks4Proxy |-> Of("socks4"), Socks5Proxy |-> Of("socks5"),
                  Socks5ProxyUsername |-> Text(s.user), Socks5ProxyPassword |-> Text(s.pass)])
        @@ (IF s.useBridges THEN [o \in Tunnel |-> <<TRUE>>]
            ELSE IF version <= V(0, 2, 0, 33) THEN [o \in Tunnel |-> <<FALSE>>] ELSE <<>>)
        @@ (IF version < V(0, 2, 0, 3) THEN <<>>
            ELSE [UseBridges |-> <<bridges>>, UpdateBridgesFromAuthority |-> <<bridges>>,
                  Bridge |-> IF bridges THEN s.bridges ELSE <<>>])

\* The settings as value() reads them: those that Tor knows as options of the same name
\* from Tor, unless it is not connected or they are marked as changed.  An option without
\* a value reads as a list of one empty text.
NetworkRead(s, conf, ask) ==
    IF ~ask THEN s
    ELSE [s EXCEPT !.ports = IF conf.ReachableAddresses = <<>> THEN <<>> ELSE conf.ReachableAddresses[1],
                   !.useBridges = conf.UseBridges[1],
                   !.bridges = IF conf.Bridge = <<>> THEN <<"">> ELSE conf.Bridge]

\* load(), into the widgets of page: the port of no address stays as it is, and a proxy of
\* a type that the running Tor does not know is not ticked.
LoadNetwork(page, read, running, version) ==
    LET known == ProxyTypeOf(read.type) \notin SocksTypes \/ ~running \/ HasSocks(version)
        type == IF known THEN ProxyTypeOf(read.type) ELSE "none"
    IN  [useProxy |-> type # "none", type |-> type,
         host |-> IF read.address = <<>> THEN "" ELSE read.address[1],
         port |-> IF read.address = <<>> THEN page.port ELSE read.address[2],
         user |-> read.user, pass |-> read.pass, firewall |-> read.firewall,
         ports |-> read.ports, useBridges |-> read.useBridges, bridges |-> read.bridges]

\* proxyTypeChanged()
CredentialsEnabled(type) == type # "socks4"

------------------------------------------------------------------------------
(* The Advanced page *)

AuthMethods == <<"none", "cookie", "password">>
ToAuthMethod(string) == IF string \in ToSet(AuthMethods) THEN string ELSE "unknown"
AuthIndex(method) == CASE method = "none" -> 1 [] method = "cookie" -> 2 [] OTHER -> 3

AdvancedDefaults ==
    [address |-> "127.0.0.1", port |-> 9051, method |-> "port", path |-> "", auth |-> "password",
     random |-> TRUE, password |-> "", auto |-> FALSE, torrc |-> "default", dataDir |-> "",
     warn |-> <<23, 109, 110, 143>>, reject |-> <<>>]

\* getExecutable(), getTorrc() and getDataDirectory(), where tor has what the Tor that is
\* connected says of its files, and marked is whether the settings have changed.
Executable(name) == IF name = "" THEN "tor" ELSE name
Torrc(s, link, tor) == IF link = "none" THEN s.torrc ELSE tor.torrc
DataDirectory(s, marked, link, tor) ==
    IF link = "none" \/ marked \/ tor.dataDir = "" THEN s.dataDir ELSE tor.dataDir

\* save(), of the settings s, while Vidalia is connected to no Tor, its own, or another
\* one: what has been stored when an error is found stays stored, and marks the settings.
Unencodable == "unencodable"
SaveAdvanced(s, marked, page, link, tor) ==
    LET auto == IF page.auto THEN [s EXCEPT !.auto = TRUE] ELSE s
        method == [auto EXCEPT !.method = page.method]
        torrc == IF link = "other" \/ page.torrc = Torrc(s, link, tor) THEN method
                 ELSE [method EXCEPT !.torrc = page.torrc]
        files == IF link = "other" \/ page.dataDir = DataDirectory(s, marked \/ torrc # s, link, tor)
                 THEN torrc ELSE [torrc EXCEPT !.dataDir = page.dataDir]
        control == IF page.auto THEN files
                   ELSE [files EXCEPT !.address = page.address, !.port = page.port, !.auto = FALSE]
        fixed == page.auth = "password" /\ ~page.random
        Refused(settings) == [ok |-> FALSE, settings |-> settings]
    IN  IF page.auto /\ page.dataDir = "" THEN Refused(s)
        ELSE IF IF page.method = "port" THEN page.address = "" ELSE page.path = "" THEN Refused(auto)
        ELSE IF (fixed /\ page.password = "") \/ Unencodable \in {page.torrc, page.dataDir}
        THEN Refused(method)
        ELSE [ok |-> TRUE,
              settings |-> [control EXCEPT !.path = page.path, !.auth = page.auth, !.random = page.random,
                                           !.password = IF fixed THEN page.password ELSE @]]

\* load(), into the widgets of page: a Tor whose version is not known, as none is
\* connected, is taken for an old one.  The method of authentication is always the stored
\* one, as getConf() of a map never succeeds.
LoadAdvanced(page, s, marked, link, tor, version) ==
    [address |-> s.address, port |-> s.port, torrc |-> Torrc(s, link, tor),
     dataDir |-> DataDirectory(s, marked, link, tor),
     auto |-> s.auto /\ version >= V(0, 2, 2, 26),
     auth |-> AuthMethods[AuthIndex(IF ToAuthMethod(s.auth) = "unknown" THEN "password" ELSE s.auth)],
     random |-> s.random, password |-> IF s.random THEN page.password ELSE s.password,
     method |-> s.method, path |-> s.path]

\* TorSettings::apply(): of a password, its hash.
AdvancedConf(s, random) ==
    [ControlPort |-> <<s.port>>, SocksPort |-> IF s.auto THEN <<"auto">> ELSE <<"9050">>,
     CookieAuthentication |-> <<ToAuthMethod(s.auth) = "cookie">>,
     HashedControlPassword |->
        If(ToAuthMethod(s.auth) = "password", <<"hash", IF s.random THEN random ELSE s.password>>),
     WarnPlaintextPorts |-> If(s.warn # <<>>, s.warn),
     RejectPlaintextPorts |-> If(s.reject # <<>>, s.reject)]

------------------------------------------------------------------------------
(* Passwords (common/crypto.cpp): numbers are of w bits *)

\* crypto_rand_quint32(): the draws that are kept, and the number that one makes.
Kept(max, w) == 0 .. (2^w - 1) - ((2^w - 1) % max) - 1
\* crypto_secret_to_key(): how much is hashed for the coded count c, and what: text over
\* and over again.
HashCount(c) == (16 + (c % 16)) * 2^(c \div 16 + 6)
RECURSIVE Hashed(_, _)
Hashed(text, count) ==
    CASE count = 0 -> <<>>
      [] count > Len(text) -> text \o Hashed(text, count - Len(text))
      [] OTHER -> SubSeq(text, 1, count)

------------------------------------------------------------------------------
(* Checks *)

NetworkPages ==
    [useProxy : BOOLEAN, type : ProxyTypes \cup {"none"}, host : {"", "h"}, port : {"", "1"},
     user : {"", "u"}, pass : {""}, firewall : BOOLEAN, ports : {<<>>, <<443, 80>>, <<0>>},
     useBridges : BOOLEAN, bridges : {<<>>, <<"b">>, <<"b", "a">>}]
AcceptedPages == {p \in NetworkPages : SaveNetwork(NetworkDefaults, p).ok}

\* Tor connects through the proxy that was chosen and no other, and through the bridges
\* that were, in their order; without a choice, directly.
ASSUME ProxyIsChosen ==
    \A p \in AcceptedPages, version \in Versions \ {0} :
        LET s == SaveNetwork(NetworkDefaults, p).settings
            conf == NetworkConf(s, version)
            Uses(option) == option \in DOMAIN conf /\ conf[option] # <<>>
        IN  /\ Cardinality({o \in {"Socks4Proxy", "Socks5Proxy", "HttpsProxy"} : Uses(o)}) <= 1
            /\ (HasSocks(version) \/ p.type = "httphttps") =>
                  (\E o \in {"Socks4Proxy", "Socks5Proxy", "HttpsProxy"} : Uses(o)) = p.useProxy
            /\ version >= V(0, 2, 0, 3) =>
                  conf.Bridge = IF p.useBridges THEN p.bridges ELSE <<>>

\* What was accepted and applied is what the page shows again, from the file or from Tor,
\* but for the details of a proxy that is not used, and but for bridges that are listed and
\* not used: read from Tor they are gone, and the next OK stores one empty bridge in their
\* place.
ASSUME ShownAgain ==
    \A p \in AcceptedPages, ask \in BOOLEAN :
        LET s == SaveNetwork(NetworkDefaults, p).settings
            version == V(0, 2, 3, 25)
            shown == LoadNetwork(p, NetworkRead(s, NetworkConf(s, version), ask), TRUE, version)
            next == SaveNetwork(s, shown)
        IN  /\ shown.useProxy = p.useProxy /\ shown.useBridges = p.useBridges
            /\ p.useProxy => \A f \in {"type", "host", "port", "user"} : shown[f] = p[f]
            /\ ~ask => shown.bridges = p.bridges
            /\ ask => shown.bridges = IF p.useBridges THEN p.bridges ELSE <<"">>
            /\ next.ok /\ (next.settings = s <=> ~ask \/ p.useBridges)

\* A bridge is in the list once, however often it is added.
ASSUME BridgesDiffer ==
    LET fold == [a |-> "a", A |-> "a", b |-> "b"]
    IN  \A inputs \in BoundedSeq({"a", "A", "b"}, 4) :
            LET list == FoldLeft(LAMBDA acc, i : AddBridge(acc, i, fold), <<>>, inputs)
            IN  /\ \A i, j \in DOMAIN list : fold[list[i]] = fold[list[j]] => i = j
                /\ \A i \in ToSet(inputs) : \E b \in ToSet(list) : fold[b] = fold[i]

AdvancedPages ==
    [address : {"", "127.0.0.1"}, port : {9051, 9151}, torrc : {"default", "other", Unencodable},
     dataDir : {"", "d"}, auto : BOOLEAN, auth : ToSet(AuthMethods), random : BOOLEAN,
     password : {"", "p"}, method : {"port", "socket"}, path : {"", "s"}]

Links == {"none", "ours", "other"}
TorsFiles == [torrc : {"default", "tors"}, dataDir : {"", "tors"}]
TorFiles == [torrc |-> "default", dataDir |-> ""]

\* A page that is refused has changed no setting but AutoControl and ControlMethod, and
\* while a Tor that is not Vidalia's is connected, its files are not taken for Vidalia's.
ASSUME RefusedIsPartial ==
    \A p \in AdvancedPages, link \in Links, tor \in TorsFiles :
        LET result == SaveAdvanced(AdvancedDefaults, FALSE, p, link, tor)
        IN  /\ ~result.ok => \A f \in DOMAIN AdvancedDefaults \ {"auto", "method"} :
                                 result.settings[f] = AdvancedDefaults[f]
            /\ link = "other" => result.settings.torrc = "default" /\ result.settings.dataDir = ""

\* Whoever chooses automatic ports has a data directory stored, though the one that is
\* shown may be Tor's own; unless the Tor is not Vidalia's.
ASSUME AutoHasDirectory ==
    \A p \in AdvancedPages, link \in {"none", "ours"}, tor \in TorsFiles, dir \in {"d", "tors"} :
        LET result == SaveAdvanced(AdvancedDefaults, FALSE, [p EXCEPT !.dataDir = dir], link, tor)
        IN  result.ok /\ p.auto => result.settings.dataDir # ""

\* A page that was accepted is shown again, but that a Tor that is not connected, or old,
\* hides the choice of automatic ports, which the next OK takes away.
ASSUME AutoIsShown ==
    \A p \in AdvancedPages, version \in Versions :
        LET result == SaveAdvanced(AdvancedDefaults, FALSE, p, "none", TorFiles)
            shown == LoadAdvanced(p, result.settings, TRUE, "none", TorFiles, version)
            next == SaveAdvanced(result.settings, TRUE, shown, "none", TorFiles)
        IN  result.ok =>
               /\ ~p.auto /\ (p.random \/ p.auth = "password") => shown = p
               /\ next.ok => (next.settings.auto <=> p.auto /\ version >= V(0, 2, 2, 26))

\* Tor accepts one way of authentication: a password, which is hashed, the cookie, or none.
ASSUME OneAuthentication ==
    \A p \in AdvancedPages :
        LET result == SaveAdvanced(AdvancedDefaults, FALSE, p, "none", TorFiles)
            conf == AdvancedConf(result.settings, "random")
        IN  result.ok =>
               /\ ~(conf.CookieAuthentication[1] /\ conf.HashedControlPassword # <<>>)
               /\ p.auth = "password" =>
                     conf.HashedControlPassword = <<<<"hash", IF p.random THEN "random" ELSE p.password>>>>

\* Numbers are drawn alike, and some are kept.
ASSUME DrawnAlike ==
    LET w == 6
    IN  \A max \in 1 .. 2^w - 1 :
            /\ Kept(max, w) # {}
            /\ \A n, m \in 0 .. max - 1 :
                  Cardinality({d \in Kept(max, w) : d % max = n})
                     = Cardinality({d \in Kept(max, w) : d % max = m})

\* As much is hashed as the count says, each place being that of the text; 64K for 96.
ASSUME HashedOverAndOver ==
    /\ HashCount(96) = 65536
    /\ \A n \in 1 .. 4, count \in 0 .. 9 :
          LET hashed == Hashed([i \in 1 .. n |-> i], count)
          IN  Len(hashed) = count /\ \A i \in 1 .. count : hashed[i] = ((i - 1) % n) + 1
=============================================================================
