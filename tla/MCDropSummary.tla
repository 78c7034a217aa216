---------------------------- MODULE MCDropSummary ----------------------------
(* A rule that tallies a field and one that does not, as docs/windows-edge.md  *)
(* writes them: logons that carry values 1 to 3 or none, an archiver event,    *)
(* one that no rule matches and one that is not an event.                      *)
EXTENDS DropSummary

MCRules ==
    <<[channels |-> {"Security"}, ids |-> {<<4624, 4624>>}, providers |-> {},
       levels |-> {}, fields |-> {[name |-> "LogonType", values |-> {5}]},
       tallyBy |-> {"Package"}],
      [channels |-> {}, ids |-> {<<2049, 2050>>, <<4624, 4624>>}, providers |-> {},
       levels |-> {4, 5}, fields |-> {}, tallyBy |-> {}]>>

Logon(data) ==
    [isEvent |-> TRUE, channel |-> "Security", id |-> 4624, provider |-> "audit",
     xmlLevel |-> -1, rendered |-> 4, data |-> data]

LogonWith(package) ==
    Logon([name \in {"LogonType", "Package"} |->
              IF name = "Package" THEN package ELSE 5])

LogonWithout == Logon([name \in {"LogonType"} |-> 5])

Archiver == [Logon(<<>>) EXCEPT !.channel = "Archiver", !.id = 2050, !.xmlLevel = 5]

Kept == [Archiver EXCEPT !.xmlLevel = 2]

NotAnEvent == [Kept EXCEPT !.isEvent = FALSE]

MCBatches == {<<LogonWith(1), LogonWith(2)>>, <<NotAnEvent, LogonWith(3), Archiver>>,
              <<LogonWithout, Kept>>}
==============================================================================
