----------------------------- MODULE LogPipeline -----------------------------
(***************************************************************************)
(* A batch of log records on its way through the processors of a pipeline. *)
(*                                                                         *)
(* A batch is a sequence of groups; the records of a group share one       *)
(* resource.  Each processor changes the batch in place and hands it to    *)
(* the next; it is called with one batch at a time here, as none of them   *)
(* keeps anything from one batch to the next.                              *)
(*                                                                         *)
(* A record carries its place in the batch that came, as id, so that the   *)
(* properties can tell records apart; the code has no such field.          *)
(***************************************************************************)
EXTENDS NetworkLogs, HostLogs, AppLogs, ObjectLogs, Enrichment

CONSTANTS
    Routes,     \* the pipelines: sequences of stages, each with the batches that come
    Feeds       \* the pipelines of the auth0 receiver, each with its polls

\* The types of the processors in the pipelines; transform/syslog is a transform
\* processor with the statements of one configuration.
Processors ==
    {"syslog", "ciscolog", "filterlog", "charonlog", "journald", "cronlog", "kernellog",
     "containerdlog", "klog", "kafkalog", "postgreslog", "snubalog", "uvicornlog",
     "nginxlog", "pgbouncerlog", "redislog", "sentrylog", "tektonlog", "logruslog",
     "k8sevent", "winlog", "snoozelog", "macextractor", "ipextractor", "assetdb",
     "resourceversion", "healthprobe", "transform/syslog"}

IsSequence(s) == s \in Seq(Range(s))

IsPipeline(pipeline) ==
    IsSequence(pipeline) /\ \A k \in DOMAIN pipeline : pipeline[k].proc \in Processors

ASSUME RoutesAssumption ==
    /\ \A route \in Routes :
         /\ IsPipeline(route.stages)
         /\ \A groups \in route.batches :
              /\ IsSequence(groups)
              /\ \A i \in DOMAIN groups : IsSequence(groups[i].recs) /\ groups[i].recs # <<>>
    /\ \A feed \in Feeds :
         /\ IsPipeline(feed.stages)
         /\ \A poll \in feed.polls : IsSequence(poll) /\ poll # <<>>

VARIABLES
    stages,     \* the processors of the pipeline
    left,       \* those the batch has still to pass
    came,       \* the batch that came
    batch,      \* what has become of it
    phase       \* whether there is a batch, and whether it was handed to the exporter

vars == <<stages, left, came, batch, phase>>

------------------------------------------------------------------------------
(* One processor *)

\* The statements of transform/syslog in test/configs/local-gateway.yaml, which run
\* before ciscolog there.
Transformed(rec) ==
    IF "message" \notin DOMAIN rec.attrs THEN rec
    ELSE [SetAttrs(rec, "original_message" :> rec.attrs["message"]) EXCEPT
            !.body = rec.attrs["message"]]

\* The rules of a winlogprocessor drop events; DropSummary has the rules, here a
\* configuration lists the events they match.
Windowed(cfg, rec) ==
    IF IsMap(rec.body) /\ Str(rec.body.fields, "event_id.id") \in cfg.drops
    THEN <<>> ELSE <<Windows(cfg, rec)>>

\* The question most processors ask of the resource before they touch its records.
Mine(cfg, res) ==
    CASE cfg.proc = "charonlog" -> CharonService(cfg, res)
      [] cfg.proc = "kernellog" -> KernelSource(res)
      [] cfg.proc = "containerdlog" -> ContainerdService(cfg, res)
      [] cfg.proc = "klog" -> KlogService(cfg, res)
      [] cfg.proc \in {"kafkalog", "postgreslog", "snubalog"} ->
           IsOfService(res, ContainerKeys, cfg.service)
      [] cfg.proc = "uvicornlog" -> IsOfService(res, PodKeys, cfg.service)
      [] cfg.proc = "logruslog" -> cfg.service = "" \/ IsOfService(res, PodKeys, cfg.service)
      [] cfg.proc = "tektonlog" -> TektonService(cfg, res)
      [] cfg.proc = "snoozelog" -> SnoozeSource(cfg, res)
      [] OTHER -> TRUE

\* processLogRecord of the processors that change nothing but records.
Changed(cfg, rec) ==
    CASE cfg.proc = "charonlog" -> Charon(cfg, rec)
      [] cfg.proc = "cronlog" -> Cron(cfg, rec)
      [] cfg.proc = "kernellog" -> Kernel(cfg, rec)
      [] cfg.proc = "containerdlog" -> Containerd(cfg, rec)
      [] cfg.proc = "klog" -> Klog(cfg, rec)
      [] cfg.proc = "kafkalog" -> Kafka(cfg, rec)
      [] cfg.proc = "postgreslog" -> Postgres(cfg, rec)
      [] cfg.proc = "snubalog" -> Snuba(cfg, rec)
      [] cfg.proc = "uvicornlog" -> Uvicorn(cfg, rec)
      [] cfg.proc = "tektonlog" -> Tekton(cfg, rec)
      [] cfg.proc = "logruslog" -> Logrus(cfg, rec)
      [] cfg.proc = "snoozelog" -> Snooze(cfg, rec)
      [] cfg.proc = "k8sevent" -> K8sEvent(cfg, rec)
      [] cfg.proc = "macextractor" -> ExtractMAC(cfg, rec)
      [] cfg.proc = "ipextractor" -> ExtractIP(cfg, rec)
      [] cfg.proc = "assetdb" -> Enriched(cfg, rec)
      [] cfg.proc = "transform/syslog" -> Transformed(rec)

\* What a processor may make of a record and of the resource it shares.
Outcomes(cfg, res, rec) ==
    CASE cfg.proc = "syslog" -> {Syslog(cfg, res, rec)}
      [] cfg.proc = "ciscolog" -> Cisco(cfg, res, rec)
      [] cfg.proc = "filterlog" -> {FilterLog(cfg, res, rec)}
      [] cfg.proc = "nginxlog" -> {Nginx(cfg, res, rec)}
      [] cfg.proc = "pgbouncerlog" -> {PgBouncer(cfg, res, rec)}
      [] cfg.proc = "redislog" -> {Redis(cfg, res, rec)}
      [] cfg.proc = "sentrylog" -> {Sentry(cfg, res, rec)}
      [] cfg.proc = "resourceversion" -> {Outcome(Stamped(cfg, res), rec)}
      [] cfg.proc = "healthprobe" -> {[res |-> res, recs |-> recs] : recs \in Sampled(cfg, rec)}
      [] cfg.proc = "winlog" -> {[res |-> res, recs |-> Windowed(cfg, rec)]}
      [] OTHER -> {Outcome(res, IF Mine(cfg, res) THEN Changed(cfg, rec) ELSE rec)}

\* A processor changes the records of a group one after the other, and the
\* resource they share: after[n] is what the group may be when n records have been
\* processed.
InTurn(cfg, group) ==
    LET after[n \in 0 .. Len(group.recs)] ==
            IF n = 0 THEN {[res |-> group.res, recs |-> <<>>]}
            ELSE UNION {{[res |-> next.res, recs |-> g.recs \o next.recs] :
                           next \in Outcomes(cfg, g.res, group.recs[n])} : g \in after[n - 1]}
    IN  after[Len(group.recs)]

\* ConsumeLogs: every record of every group in turn; done[n] is what the first n
\* groups may be.  The processors that may remove records remove the groups they
\* leave empty.
Consumed(cfg, groups) ==
    LET done[n \in 0 .. Len(groups)] ==
            IF n = 0 THEN {<<>>}
            ELSE {Append(gs, g) : gs \in done[n - 1],
                    g \in InTurn(cfg, groups[n])}
    IN  CASE cfg.proc = "journald" -> {Journal(cfg, groups)}
          [] cfg.proc \in {"healthprobe", "winlog"} ->
               {Filled(gs) : gs \in done[Len(groups)]}
          [] OTHER -> done[Len(groups)]

\* What may become of a batch by the end of a pipeline; an empty one stays empty.
Through(pipeline, groups) ==
    LET after[n \in 0 .. Len(pipeline)] ==
            IF n = 0 THEN {groups}
            ELSE UNION {Consumed(pipeline[n], b) : b \in after[n - 1]}
    IN  after[Len(pipeline)]

------------------------------------------------------------------------------
(* The pipeline *)

\* The records of a batch with their places.
Placed(groups) ==
    [g \in DOMAIN groups |->
        [res  |-> groups[g].res,
         recs |-> [i \in DOMAIN groups[g].recs |->
                     LET rec == groups[g].recs[i]
                     IN  [body |-> rec.body, attrs |-> rec.attrs, sev |-> rec.sev,
                          time |-> rec.time, id |-> <<g, i>>]]]]

Init ==
    /\ stages = <<>> /\ left = <<>>
    /\ came = <<>> /\ batch = <<>>
    /\ phase = "idle"

Arrives(pipeline, groups) ==
    /\ phase = "idle"
    /\ stages' = pipeline /\ left' = pipeline
    /\ came' = Placed(groups) /\ batch' = Placed(groups)
    /\ phase' = "passing"

\* A receiver hands over a batch.
Receive == \E route \in Routes : \E groups \in route.batches : Arrives(route.stages, groups)

\* The auth0 receiver makes one batch of what a poll brought, a group for each
\* envelope that is valid; of a poll without one it makes none.
ReceiveEvents ==
    \E feed \in Feeds : \E poll \in feed.polls :
        LET groups == FlattenSeq([i \in DOMAIN poll |-> SetToSeq(Auth0Logs(poll[i]))])
        IN  groups # <<>> /\ Arrives(feed.stages, groups)

\* The next processor consumes the batch.
Process ==
    /\ phase = "passing" /\ left # <<>> /\ batch # <<>>
    /\ batch' \in Consumed(Head(left), batch)
    /\ left' = Tail(left)
    /\ UNCHANGED <<stages, came, phase>>

\* The last processor hands the batch to the exporter.
Deliver ==
    /\ phase = "passing" /\ left = <<>> /\ batch # <<>>
    /\ phase' = "delivered"
    /\ UNCHANGED <<stages, left, came, batch>>

\* A processor that has removed every record returns without calling the next.
GiveUp ==
    /\ phase = "passing" /\ batch = <<>>
    /\ phase' = "delivered" /\ left' = <<>>
    /\ UNCHANGED <<stages, came, batch>>

\* ConsumeLogs returns to the receiver.
Return ==
    /\ phase = "delivered"
    /\ stages' = <<>> /\ came' = <<>> /\ batch' = <<>>
    /\ phase' = "idle"
    /\ UNCHANGED left

Next == Receive \/ ReceiveEvents \/ Process \/ Deliver \/ GiveUp \/ Return

Spec == Init /\ [][Next]_vars

------------------------------------------------------------------------------
(* Properties of what is delivered *)

Places(groups) == UNION {{<<g, i>> : i \in DOMAIN groups[g].recs} : g \in DOMAIN groups}

\* What became of the record that came at a place: each record left of it, with its
\* resource.
Fate(groups, place) ==
    FlattenSeq([g \in DOMAIN groups |->
        LET recs == groups[g].recs
            mine == Picked(recs, {i \in DOMAIN recs : recs[i].id = place})
        IN  [i \in DOMAIN mine |-> <<groups[g].res, mine[i]>>]])

\* The processors that write the resource the records of a group share.
WritesResource(cfg) ==
    \/ cfg.proc \in {"syslog", "ciscolog", "filterlog", "nginxlog", "pgbouncerlog",
                     "redislog", "sentrylog"}
    \/ cfg.proc = "journald" /\ cfg.setResource /\ ~cfg.splitResources

\* A record fares in its batch as it would alone: whatever else is in the batch,
\* it is neither lost nor doubled, and neither it nor its resource takes anything
\* from another record.  Where a processor writes the resource this can hold of
\* groups of one record only: the journal processor splits groups for that
\* (journaldprocessor split, sameTuple), the others leave it to their source.
EachAsIfAlone ==
    phase = "delivered" =>
        \A place \in Places(came) :
            LET group == came[place[1]]
                alone == <<[group EXCEPT !.recs = <<@[place[2]]>>]>>
            IN  \/ Len(group.recs) > 1 /\ \E k \in DOMAIN stages : WritesResource(stages[k])
                \/ \E other \in Through(stages, alone) :
                       Fate(batch, place) = Fate(other, place)

\* The processors that save the text they parse, those that replace what an earlier
\* one saved, and those that rewrite a body and save nothing.
SavesFirst(cfg) ==
    \/ cfg.proc \in {"cronlog", "kernellog", "containerdlog", "charonlog"}
    \/ cfg.proc = "syslog" /\ cfg.preserveOriginal
SavesOver(cfg) ==
    \/ cfg.proc \in {"kafkalog", "postgreslog", "snubalog", "uvicornlog", "klog",
                     "logruslog", "nginxlog"}
    \/ cfg.proc \in {"pgbouncerlog", "redislog", "sentrylog"} /\ cfg.preserveOriginal
SavesNothing(cfg) ==
    \/ cfg.proc \in {"journald", "filterlog", "ciscolog", "tektonlog", "snoozelog",
                     "k8sevent", "winlog", "healthprobe", "transform/syslog"}
    \/ cfg.proc = "syslog" /\ cfg.cleanBody /\ ~cfg.preserveOriginal
    \/ cfg.proc \in {"pgbouncerlog", "redislog", "sentrylog"} /\ ~cfg.preserveOriginal

\* The processors that read an attribute before the body, and those that put
\* full_message in the place of the text they have saved.
ReadsSource(cfg) ==
    cfg.proc \in {"syslog", "nginxlog", "pgbouncerlog", "redislog", "sentrylog"}
RenamesFull(cfg) == cfg.proc \in {"snubalog", "redislog", "sentrylog"}

\* The texts a record brings to a pipeline: its body, or the full_message of an edge
\* collector that left no body; what an earlier collector saved; what the processors
\* of the pipeline read or rename instead.
TextsOf(pipeline, rec) ==
    LET cfgs == Range(pipeline)
        attributes ==
            {"original_message"} \cup {cfg.source : cfg \in {c \in cfgs : ReadsSource(c)}}
            \cup {a \in {"full_message"} : \E cfg \in cfgs : RenamesFull(cfg)}
    IN  ({BodyOrFull(rec)} \cup {TextAt(rec.attrs, a) : a \in attributes}) \ {Empty}

\* A text a record came with is still in it when it is delivered, as its body or its
\* original_message, however many processors have parsed it one after the other,
\* provided that each of them saves what it parses and only the first one may
\* replace what is saved.  So a record with one text never loses it.  Where its body,
\* its source attribute and its full_message differ, one text is kept and the others
\* may go: nginx and pgbouncer keep the source attribute, kafka, postgres and uvicorn
\* the body, and redis, sentry and snuba the full_message, even over the text that
\* they have saved just before.
SourceTextSurvives ==
    phase = "delivered" /\ (\A k \in DOMAIN stages :
                              /\ ~SavesNothing(stages[k])
                              /\ \A j \in 1 .. k - 1 :
                                    SavesOver(stages[k]) =>
                                        ~SavesFirst(stages[j]) /\ ~SavesOver(stages[j])) =>
        \A place \in Places(came) : \A fate \in Range(Fate(batch, place)) :
            LET texts == TextsOf(stages, came[place[1]].recs[place[2]])
                held  == {BodyOrFull(fate[2]), TextAt(fate[2].attrs, "original_message")}
            IN  texts = {} \/ \E text \in texts, kept \in held : Stripped(kept) = Stripped(text)

\* The records of one source stay in the order in which they came, as long as they
\* stay in one group: no processor sorts, and the journal processor takes its groups
\* apart without turning them round.
SourceOrderKept ==
    \A g \in DOMAIN batch : \A i, j \in DOMAIN batch[g].recs :
        LET first == batch[g].recs[i].id
            other == batch[g].recs[j].id
        IN  i < j /\ first[1] = other[1] => first[2] < other[2]

\* portdb.go says that its "Per-device structure allows same port name to have
\* different meanings on different switches": the alias of a record is the one its
\* own device gives the port.
AliasIsTheDevices ==
    \A k \in DOMAIN stages : stages[k].proc = "ciscolog" /\ phase = "delivered" =>
        \A g \in DOMAIN batch : \A rec \in Range(batch[g].recs) :
            LET device == Str(rec.attrs, "net.peer.name")
                port   == Str(rec.attrs, "network.interface.name")
                ports  == stages[k].ports
            IN  device \in DOMAIN ports /\ port \in DOMAIN ports[device] =>
                    Str(rec.attrs, "network.interface.alias") = ports[device][port]
==============================================================================
