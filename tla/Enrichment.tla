------------------------------ MODULE Enrichment ------------------------------
(***************************************************************************)
(* The processors that add to records of any kind: hardware and IP         *)
(* addresses found in a text, the asset an address belongs to, the version *)
(* of the collector, and the sampling of health probes.                    *)
(*                                                                         *)
(* A text lists the addresses it contains as its field addresses: each has *)
(* the kind of its notation, and its value in the one way both extractors  *)
(* write it.  A composed text has those of the text in it.                 *)
(***************************************************************************)
EXTENDS LogRecord

CONSTANT Bare   \* a path without its query, as it is and without one slash at its end

OwnAddresses(text) == IF "addresses" \in DOMAIN text THEN text.addresses ELSE <<>>

\* extractFromValue, of a text or a map of texts.
AddressesIn(body) ==
    CASE "addresses" \in DOMAIN body -> body.addresses
      [] "addresses" \notin DOMAIN body /\ "content" \in DOMAIN body -> OwnAddresses(body.content)
      [] IsMap(body) -> OwnAddresses(TextAt(body.fields, "MESSAGE"))
                        \o OwnAddresses(TextAt(body.fields, "text"))
      [] OTHER -> <<>>

\* Where a record is searched: its body, then the listed attributes in their order.
Searched(cfg, rec) ==
    (IF cfg.searchBody THEN <<rec.body>> ELSE <<>>)
    \o [i \in DOMAIN cfg.search |-> TextAt(rec.attrs, cfg.search[i])]

\* uniqueStrings
Unique(seq) ==
    FoldLeft(LAMBDA kept, x : IF x \in Range(kept) THEN kept ELSE Append(kept, x), <<>>, seq)

OfKind(addresses, kind) == SelectSeq(addresses, LAMBDA a : a.kind = kind)

\* The target attribute lists all that was found, or the first.
WithFound(cfg, rec, found) ==
    IF found = <<>> THEN rec
    ELSE SetAttrs(rec, cfg.target :> (IF cfg.extractAll THEN found ELSE <<found[1]>>))

------------------------------------------------------------------------------
(* macextractorprocessor *)

MACNotations == <<"duid-ll", "duid-llt", "eui64", "colon", "dash", "dotted">>

\* extractMACFromEUI64: the address in an IPv6 address has bit 1 of its first byte
\* flipped.  An address is its first byte and the rest.
MACOf(a) ==
    IF a.kind # "eui64" THEN a.value
    ELSE [a.value EXCEPT !.first = IF (@ \div 2) % 2 = 1 THEN @ - 2 ELSE @ + 2]

\* ExtractMACs: one notation after the other.  What looks like a part of an IPv6
\* address is of no notation.
MACsIn(text) ==
    FlattenSeq([k \in DOMAIN MACNotations |->
        LET of == OfKind(AddressesIn(text), MACNotations[k])
        IN  [i \in DOMAIN of |-> MACOf(of[i])]])

\* logsProcessor.processLogRecord
ExtractMAC(cfg, rec) ==
    WithFound(cfg, rec,
        Unique(FlattenSeq([i \in DOMAIN Searched(cfg, rec) |->
                              MACsIn(Searched(cfg, rec)[i])])))

------------------------------------------------------------------------------
(* ipextractorprocessor *)

\* ExtractIPs: loopback and unspecified addresses do not count.
IPsIn(cfg, text) ==
    LET all   == AddressesIn(text)
        found == OfKind(all, "v4") \o (IF cfg.ipv6 THEN OfKind(all, "v6") ELSE <<>>)
        kept  == SelectSeq(found, LAMBDA a : ~a.excluded)
    IN  [i \in DOMAIN kept |-> kept[i].value]

\* logsProcessor.processLogRecord
ExtractIP(cfg, rec) ==
    WithFound(cfg, rec,
        Unique(FlattenSeq([i \in DOMAIN Searched(cfg, rec) |->
                              IPsIn(cfg, Searched(cfg, rec)[i])])))

------------------------------------------------------------------------------
(* assetdbprocessor *)

\* loadAssetDB: of the entries with one address the last counts.
AssetsOf(cfg, mac) ==
    LET at == {i \in DOMAIN cfg.assets : cfg.assets[i].mac = mac}
    IN  IF at = {} THEN {}
        ELSE {cfg.assets[CHOOSE i \in at : \A j \in at : j <= i]}

\* enrichLogRecord: a list of several addresses is not the address of an asset.
Enriched(cfg, rec) ==
    LET macs  == IF cfg.source \in DOMAIN rec.attrs THEN rec.attrs[cfg.source] ELSE <<>>
        found == IF Len(macs) = 1 THEN AssetsOf(cfg, macs[1]) ELSE {}
    IN  IF found = {} THEN rec
        ELSE LET asset == CHOOSE a \in found : TRUE
             IN  SetAttrs(rec, NonEmpty("client.hostname" :> asset.hostname
                                        @@ "host.geo.description" :> asset.location))

------------------------------------------------------------------------------
(* resourceversionprocessor *)

\* ConsumeLogs: every resource is stamped with the version of the collector in
\* this role, over one that another collector in the same role wrote.
Stamped(cfg, res) == Put(res, "collector." \o cfg.role \o ".version", cfg.version)

------------------------------------------------------------------------------
(* healthprobesampler, probesample *)

\* Sampler.Classify.  An agent is a text, and its name is what it starts with.
IsProbe(cfg, rec) ==
    LET code == IF cfg.statusAttr \in DOMAIN rec.attrs THEN rec.attrs[cfg.statusAttr] ELSE 0
        path == Str(rec.attrs, cfg.pathAttr)
    IN  /\ code \in {200, 302}
        /\ \/ path \in DOMAIN Bare /\ Bare[path] \cap cfg.paths # {}
           \/ Str(TextAt(rec.attrs, cfg.agentAttr), "name") \in cfg.agents

\* Sampler.Keep: the draw may fall either way unless the ratio leaves it no choice.
Draws(cfg) == CASE cfg.keep = "all" -> {TRUE}
                [] cfg.keep = "none" -> {FALSE}
                [] cfg.keep = "some" -> BOOLEAN

\* processorImpl.ConsumeLogs, for one record: what it may leave of it.
Sampled(cfg, rec) ==
    IF ~cfg.enabled \/ ~IsProbe(cfg, rec) THEN {<<rec>>}
    ELSE {IF kept THEN <<SetAttrs([rec EXCEPT !.body = [form |-> "HealthProbe"]],
                                  "log.type" :> "health_probe")>>
          ELSE <<>> : kept \in Draws(cfg)}
==============================================================================
