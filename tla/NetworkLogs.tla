----------------------------- MODULE NetworkLogs -----------------------------
(***************************************************************************)
(* The processors of network devices' logs: syslog, Cisco and HP switches, *)
(* the pf packet filter and the charon IPsec daemon.  All but charon write *)
(* the resource, which the records of a group share.                       *)
(***************************************************************************)
EXTENDS LogRecord

CONSTANT Short      \* the short name of a host: Short[h] is h up to its first dot

------------------------------------------------------------------------------
(* syslogprocessor *)

PriorityToSeverity(priority) ==
    LET level == priority % 8
    IN  CASE level = 0 -> Sev(24, "FATAL")
          [] level = 1 -> FATAL
          [] level \in {2, 3} -> ERROR
          [] level = 4 -> WARN
          [] level \in {5, 6} -> INFO
          [] level = 7 -> DEBUG

NotNil(field) == IF field = "-" THEN "" ELSE field

NoSyslog == [host |-> "", app |-> "", pid |-> "", content |-> Empty, ios |-> <<>>]

\* Parse, for texts that match one of the three formats.  A Cisco message names no
\* host; the tag of an RFC 3164 message is optional.
SyslogFields(text) ==
    CASE text.form = "rfc5424" ->
           [NoSyslog EXCEPT !.host = NotNil(text.host), !.app = NotNil(text.app),
                            !.pid = NotNil(text.pid), !.content = text.content]
      [] text.form = "rfc3164" ->
           [NoSyslog EXCEPT !.host = text.host, !.app = text.app,
                            !.pid = text.pid, !.content = text.content]
      [] text.form = "cisco ios" ->
           [NoSyslog EXCEPT !.content = text.content,
              !.ios = Named(text, "cisco.facility" :> "facility"
                                  @@ "cisco.mnemonic" :> "mnemonic"
                                  @@ "cisco.sequence" :> "seq")]

SyslogFormats == {"rfc5424", "rfc3164", "cisco ios"}

\* An RFC 5424 message inside an RFC 3164 one: what it names goes first.
Unwrapped(text) ==
    LET outer == SyslogFields(text)
        inner == SyslogFields(outer.content)
        Of(field) == IF inner[field] # "" THEN inner[field] ELSE outer[field]
    IN  IF text.form = "rfc3164" /\ outer.content.form = "rfc5424"
        THEN [outer EXCEPT !.host = Of("host"), !.app = Of("app"),
                           !.pid = Of("pid"), !.content = inner.content]
        ELSE outer

\* The attribute priority is the set of the number it is written as, and {} where it
\* is no number: then the severity stays.
WithPriority(cfg, rec) ==
    LET numbers == IF cfg.mapSeverity /\ "priority" \in DOMAIN rec.attrs
                   THEN rec.attrs["priority"] ELSE {}
    IN  IF numbers = {} THEN rec
        ELSE [rec EXCEPT !.sev = PriorityToSeverity(CHOOSE n \in numbers : TRUE)]

\* syslogProcessor.processLogRecord
Syslog(cfg, res, rec) ==
    LET source  == TextAt(rec.attrs, cfg.source)
        inBody  == source = Empty /\ ~IsMap(rec.body) /\ rec.body # Empty
        message == IF inBody THEN rec.body ELSE source
        marked  == IF inBody THEN Put(rec.attrs, "syslog.parse_error", TRUE) ELSE rec.attrs
        kept    == IF cfg.preserveOriginal
                   THEN SavedOnce(marked, message) ELSE marked
        info    == Unwrapped(message)
        peer    == IF "net.peer.ip" \in DOMAIN kept
                   THEN ("source.ip" :> kept["net.peer.ip"]) ELSE <<>>
        named   == PutAll(kept, peer @@ info.ios @@ NonEmpty("process.pid" :> info.pid))
        owner   == NonEmpty((IF cfg.setHostname THEN "host.name" :> info.host ELSE <<>>)
                            @@ (IF cfg.setServiceName THEN "service.name" :> info.app
                                ELSE <<>>))
        Marked(attrs) == WithPriority(cfg, [rec EXCEPT
                            !.attrs = Put(attrs, "log.source", "syslog")])
    IN  IF message = Empty THEN Outcome(res, rec)
        ELSE IF message.form \notin SyslogFormats THEN Outcome(res, Marked(kept))
        ELSE Outcome(PutAll(res, owner),
                     Rewritten(Marked(named), cfg.cleanBody, info.content))

------------------------------------------------------------------------------
(* ciscologprocessor *)

\* The text without a priority in angle brackets, and what CleanBody leaves.
Stripped(text) == IF text.form = "prioritised" THEN text.content ELSE text

MnemonicForms == {"cisco", "cisco ios", "wlc"}

\* The mnemonic may be anywhere in the text, the prefixes of the controller's and
\* the HP switch's messages only at its start.
HasMnemonic(text) == Stripped(text).form \in MnemonicForms

WarnMnemonics ==
    {"UPDOWN", "CHANGED", "PORTSTATUS", "LINK_DOWN", "LINK_UP", "TOPOLOGY_CHANGE",
     "TOPOLOGY_CHANGE_RCVD", "TOPOTRAP", "ROOT_BRIDGE_CHANGE", "BLOCK", "UNBLOCK",
     "PORT_ROLE", "PORT_STATE", "SPANTREE_PORT_STATE", "FWD_CHANGE", "LEARN_CHANGE",
     "LISTENING_TO_FORWARDING", "MACFLAP_NOTIF", "MAC_FLAP", "CLIENT_DEAUTH",
     "POE_OVERLOAD"}

InfoMnemonics ==
    {"CLIENT_ASSOCIATE", "CLIENT_DISASSOCIATE", "POE_ALLOCATED", "POE_REMOVED"}

CiscoSeverity ==
    "0" :> Sev(24, "FATAL") @@ "1" :> FATAL @@ "2" :> Sev(18, "ERROR")
    @@ "3" :> ERROR @@ "E" :> ERROR @@ "4" :> WARN @@ "W" :> WARN
    @@ "5" :> Sev(10, "INFO") @@ "N" :> Sev(10, "INFO")
    @@ "6" :> INFO @@ "I" :> INFO @@ "7" :> DEBUG @@ "D" :> DEBUG

\* maybeAdjustCiscoSeverity
WithCiscoSeverity(cfg, rec) ==
    LET mnemonic == Str(rec.attrs, "cisco_mnemonic")
        level    == Str(rec.attrs, "cisco_severity")
    IN  CASE ~cfg.adjustSeverity \/ mnemonic = "" -> rec
          [] mnemonic \in WarnMnemonics -> [rec EXCEPT !.sev = WARN]
          [] mnemonic \in InfoMnemonics -> [rec EXCEPT !.sev = INFO]
          [] OTHER -> IF rec.sev.number = 0 /\ level \in DOMAIN CiscoSeverity
                      THEN [rec EXCEPT !.sev = CiscoSeverity[level]] ELSE rec

\* maybeSetHostname
WithPeerName(cfg, res, rec) ==
    IF cfg.setHostname /\ "net.peer.name" \in DOMAIN rec.attrs
    THEN PutNew(res, "host.name", rec.attrs["net.peer.name"])
    ELSE res

\* maybeCleanBody
WithCleanBody(cfg, rec) ==
    IF cfg.cleanBody /\ ~IsMap(rec.body) THEN [rec EXCEPT !.body = Stripped(@)] ELSE rec

\* portDB.Lookup, with every alias it may return: hosts with the same short name
\* are tried in the order in which a map is walked, which is not determined.
Lookup(ports, host, port) ==
    LET names(h) == host \in DOMAIN Short /\ Short[h] \in {Short[host], host}
        near == {h \in DOMAIN ports : names(h) /\ port \in DOMAIN ports[h]}
    IN  CASE host \in DOMAIN ports /\ port \in DOMAIN ports[host] -> {ports[host][port]}
          [] OTHER -> IF near = {} THEN {""} ELSE {ports[h][port] : h \in near}

\* maybeExtractInterface, with the host name the resource has: each outcome is one
\* alias the lookup may return.
WithInterface(cfg, text, host, rec) ==
    LET port    == Str(Stripped(text), "port")
        aliases == IF host = "" THEN {""} ELSE Lookup(cfg.ports, host, port)
    IN  IF port = "" THEN {rec}
        ELSE {SetAttrs(rec, "network.interface.name" :> port
                            @@ NonEmpty("network.interface.alias" :> alias)) :
                alias \in aliases}

\* processWLCLog: the text names the access point and the thread that wrote it.
Controller(cfg, text, rec) ==
    LET named == SetAttrs(rec, Named(text,
                    "wifi.ap.name" :> "ap" @@ "thread.name" :> "thread"
                    @@ "code.filepath" :> "file" @@ "code.lineno" :> "line"
                    @@ "wifi.client.ap" :> "clientAP" @@ "wifi.radio" :> "radio"
                    @@ "wifi.wlan.id" :> "wlan"))
        rated == WithCiscoSeverity(cfg, named)
    IN  IF cfg.rewrite /\ text.content # Empty
        THEN [rated EXCEPT !.body = text.content] ELSE WithCleanBody(cfg, rated)

\* processHPLog
Switch(cfg, text, rec) ==
    LET named == SetAttrs(rec, Named(text,
                    "process.name" :> "pid" @@ "code.filepath" :> "file"
                    @@ "code.lineno" :> "line" @@ "log.sequence" :> "seq"))
    IN  IF cfg.rewrite /\ text.content # Empty
        THEN [named EXCEPT !.body = text.content] ELSE WithCleanBody(cfg, named)

\* logsProcessor.processLogRecord: the outcomes for one record.
Cisco(cfg, res, rec) ==
    LET attr  == TextAt(rec.attrs, cfg.source)
        text  == IF attr = Empty /\ ~IsMap(rec.body) THEN rec.body ELSE attr
        peer  == WithPeerName(cfg, res, rec)
        Finished(host, r) ==
            {WithCleanBody(cfg, WithCiscoSeverity(cfg, x)) :
               x \in WithInterface(cfg, text, host, r)}
        parsed == SetAttrs(rec, [name \in {"cisco_facility", "cisco_mnemonic",
                                           "cisco_severity"} |->
                     Stripped(text)[CASE name = "cisco_facility" -> "facility"
                                      [] name = "cisco_mnemonic" -> "mnemonic"
                                      [] name = "cisco_severity" -> "severity"]])
        owned(r) == PutNew(r, "service.name", Str(Stripped(text), "facility"))
        named    == "host.name" :> Str(text, "host") @@ "service.name" :> Str(text, "app")
    IN  CASE "cisco_facility" \in DOMAIN rec.attrs ->
               {Outcome(peer, x) : x \in Finished(Str(res, "host.name"), rec)}
          [] text = Empty -> {Outcome(res, rec)}
          [] HasMnemonic(text) /\ text.form = "wlc" ->
               {Outcome(owned(peer), Controller(cfg, text, parsed))}
          [] HasMnemonic(text) /\ text.form # "wlc" ->
               {Outcome(owned(peer), x) : x \in Finished(Str(peer, "host.name"), parsed)}
          [] text.form = "hp" ->
               {Outcome(res @@ named, Switch(cfg, text, rec))}
          [] OTHER -> {Outcome(peer, WithCleanBody(cfg, rec))}

------------------------------------------------------------------------------
(* filterlogprocessor *)

\* The attributes a packet filter line gives.  Its fields are numbered from 1; what
\* follows the addresses depends on the protocol and starts after field first.
PacketAttrs(f) ==
    LET n     == Len(f)
        v4    == f[9] = "4"
        v6    == f[9] = "6"
        first == IF v4 THEN 20 ELSE 16
        rule  == "pf.rule.id" :> f[1] @@ "pf.rule.tracker" :> f[4]
                 @@ "network.interface.name" :> f[5] @@ "pf.reason" :> f[6]
                 @@ "event.action" :> f[7] @@ "pf.direction" :> f[8]
                 @@ "network.type" :> f[9]
        ip    == CASE v4 /\ n >= 19 ->
                        "pf.ip.ttl" :> f[12] @@ "network.transport" :> f[17]
                        @@ "network.bytes" :> f[18] @@ "source.ip" :> f[19]
                        @@ (IF n >= 20 THEN "destination.ip" :> f[20] ELSE <<>>)
                   [] v6 /\ n >= 16 ->
                        "network.transport" :> f[13] @@ "network.bytes" :> f[14]
                        @@ "source.ip" :> f[15] @@ "destination.ip" :> f[16]
                   [] OTHER -> <<>>
        proto == Str(ip, "network.transport")
        ports == "source.port" :> f[first + 1] @@ "destination.port" :> f[first + 2]
        rest  == CASE proto = "tcp" /\ n >= first + 4 ->
                        ports @@ "pf.tcp.flags" :> f[first + 4]
                   [] proto = "udp" /\ n >= first + 2 -> ports
                   [] (proto = "icmp" \/ (v6 /\ proto = "ipv6-icmp")) /\ n >= first + 2 ->
                        "pf.icmp.type" :> f[first + 1] @@ "pf.icmp.id" :> f[first + 2]
                   [] OTHER -> <<>>
    IN  NonEmpty(rule @@ ip @@ rest)

\* NormalizeIPVersion, NormalizeDirection
Normalized(attrs) ==
    LET names == "4" :> "ipv4" @@ "6" :> "ipv6" @@ "in" :> "inbound" @@ "out" :> "outbound"
        change == {name \in {"network.type", "pf.direction"} \cap DOMAIN attrs :
                     attrs[name] \in DOMAIN names}
    IN  [name \in DOMAIN attrs |->
            IF name \in change THEN names[attrs[name]] ELSE attrs[name]]

\* buildCleanMessage: any direction but out reads as inbound.
PacketMessage(attrs) ==
    [form |-> "packet",
     inbound |-> Str(attrs, "pf.direction") # "out",
     parts |-> [name \in DOMAIN attrs \cap
                   {"event.action", "network.interface.name", "network.transport",
                    "source.ip", "source.port", "destination.ip", "destination.port",
                    "pf.tcp.flags", "pf.icmp.type", "pf.icmp.id", "pf.rule.id"} |->
                 attrs[name]]]

\* logsProcessor.processLogRecord: the body goes first, then the source attribute.
FilterLog(cfg, res, rec) ==
    LET text  == IF rec.body.form = "filterlog" THEN rec.body
                 ELSE TextAt(rec.attrs, cfg.source)
        attrs == PacketAttrs(text.fields)
    IN  IF text.form # "filterlog" \/ Len(text.fields) < 18 THEN Outcome(res, rec)
        ELSE Outcome(Put(res, "service.name", "filterlog"),
                     Rewritten(SetAttrs(rec, Normalized(attrs)), cfg.rewrite,
                               PacketMessage(attrs)))

------------------------------------------------------------------------------
(* charonlogprocessor *)

\* ParseCharonLog beside the thread and the connection: each pattern is looked for
\* on its own, so one message may match several.
CharonExtra(text) ==
    LET from == [ip |-> "from", port |-> "fromPort"]
        to   == [ip |-> "to", port |-> "toPort"]
        near == IF Str(text, "direction") = "received" THEN to ELSE from
        far  == IF near = to THEN from ELSE to
    IN  Named(text,
          "ipsec.direction" :> "direction" @@ "ipsec.packet_size" :> "size"
          @@ "ipsec.local_ip" :> near.ip @@ "ipsec.local_port" :> near.port
          @@ "ipsec.remote_ip" :> far.ip @@ "ipsec.remote_port" :> far.port
          @@ "ipsec.child_sa" :> "childSA" @@ "ipsec.child_sa_num" :> "childNum"
          @@ "ipsec.child_sa_state" :> "childState"
          @@ "ipsec.spi_in" :> "spiIn" @@ "ipsec.spi_out" :> "spiOut"
          @@ "ipsec.traffic_selectors" :> "selectors"
          @@ "ipsec.proposal" :> "proposal"
          @@ "ipsec.delete_protocol" :> "deleteProtocol" @@ "ipsec.delete_spi" :> "deleteSPI"
          @@ "ipsec.auth_identity" :> "identity" @@ "ipsec.auth_method" :> "method"
          @@ "ipsec.auth_result" :> "result"
          @@ "ipsec.ike_sa_name" :> "ikeName" @@ "ipsec.ike_sa_num" :> "ikeNum"
          @@ "ipsec.ike_sa_state" :> "ikeState")

\* The message is shortened for a packet, and for a proposal after that.
CharonMessage(text) ==
    LET extra == CharonExtra(text)
    IN  CASE "proposal" \in DOMAIN text ->
               [form |-> "proposal", proposal |-> text.proposal]
          [] "direction" \in DOMAIN text /\ "proposal" \notin DOMAIN text ->
               [form |-> "packet short", direction |-> text.direction, size |-> text.size,
                remote |-> Str(extra, "ipsec.remote_ip")]
          [] OTHER -> text.content

\* A service is charon's by the configured name, or by a name that contains charon.
CharonService(cfg, res) ==
    /\ "service.name" \in DOMAIN res
    /\ \/ res["service.name"] = cfg.service
       \/ HasComponent(res["service.name"], "charon")

\* charonLogProcessor.processLogRecord
Charon(cfg, rec) ==
    LET text    == BodyText(rec.body)
        message == CharonMessage(text)
        named   == SetAttrs([rec EXCEPT !.attrs = SavedOnce(@, text)],
                     CharonExtra(text)
                     @@ "ipsec.thread_id" :> text.thread @@ "ipsec.component" :> text.component
                     @@ Named(text, "ipsec.connection_id" :> "connection"
                                    @@ "ipsec.connection_seq" :> "seq"))
    IN  IF text.form # "charon" THEN rec
        ELSE IF cfg.rewrite /\ message # Empty
             THEN [named EXCEPT !.body = [form |-> "tagged", tag |-> text.component,
                                          content |-> message]]
             ELSE named
==============================================================================
