------------------------------ MODULE SiteFiles ------------------------------
(***************************************************************************)
(* The two files that carry a capture configuration, and their readers.     *)
(* The applier (sensor/config_apply.py) writes kismet_site.conf and         *)
(* collector.conf and reads them with parsers of its own; the collector      *)
(* (hop_coverage.py, collector.py) and the hop guard (hop_guard.py) have      *)
(* others.                                                                   *)
(*                                                                         *)
(* A line of kismet_site.conf is [kind, iface, opts]: a comment, a source or *)
(* another setting; opts is the sequence of <<option, value>> after the       *)
(* colon.  A line of collector.conf is <<key, value>>, a comment's key is     *)
(* not that of a setting.  Times are in microseconds.                        *)
(***************************************************************************)
EXTENDS Integers, Sequences, FiniteSetsExt, SequencesExt

CONSTANTS
    SourceName,     \* SOURCE_NAME
    DefaultDwell,   \* Kismet's 5 channels per second
    DefaultPoll,    \* POLL_INTERVAL of a file without the line
    Nothing

\* The value of an option name=, bare or in quotes.
Name(name, quoted) == [name |-> name, quoted |-> quoted]

\* The values that an option has in a line, in order.
Values(opts, option) == LET its == SelectSeq(opts, LAMBDA o : o[1] = option) IN [i \in DOMAIN its |-> its[i][2]]

\* The first of these lines, 0 for none.
First(indices) == IF indices = {} THEN 0 ELSE Min(indices)

-----------------------------------------------------------------------------
(* The applier.  It sees only a source line that has options. *)

IsSource(line) == line.kind = "source" /\ line.opts # <<>>

SourceLine(lines) ==
    LET sources == {i \in DOMAIN lines : IsSource(lines[i])}
        named == First({i \in sources : Name(SourceName, FALSE) \in ToSet(Values(lines[i].opts, "name"))})
    IN  IF named # 0 THEN named ELSE First(sources)

HopRate(dwell) == Max({1, (1000000 + dwell \div 2) \div dwell})

SiteConfWith(lines, channels, dwell) ==
    [lines EXCEPT ![SourceLine(lines)].opts =
        SelectSeq(@, LAMBDA o : o[1] \notin {"channels", "channel_hoprate"})
            \o <<<<"channels", channels>>, <<"channel_hoprate", HopRate(dwell)>>>>]

\* A later option replaces an earlier one.
SiteConfConfig(lines) ==
    IF SourceLine(lines) = 0 THEN <<Nothing, Nothing>>
    ELSE LET opts == lines[SourceLine(lines)].opts
             lists == Values(opts, "channels")
             rates == SelectSeq(Values(opts, "channel_hoprate"), LAMBDA r : r > 0)
         IN  <<IF lists = <<>> THEN Nothing ELSE Last(lists),
               IF rates = <<>> THEN DefaultDwell ELSE ((1000000 \div Last(rates) + 500) \div 1000) * 1000>>

CollectorConfWith(lines, poll) ==
    IF \E i \in DOMAIN lines : lines[i][1] = "POLL_INTERVAL"
    THEN [i \in DOMAIN lines |-> IF lines[i][1] = "POLL_INTERVAL" THEN <<"POLL_INTERVAL", poll>> ELSE lines[i]]
    ELSE Append(lines, <<"POLL_INTERVAL", poll>>)

\* The first line.
CollectorPoll(lines) ==
    LET i == First({j \in DOMAIN lines : lines[j][1] = "POLL_INTERVAL"}) IN IF i = 0 THEN DefaultPoll ELSE lines[i][2]

-----------------------------------------------------------------------------
(* The collector and the hop guard: any source line, a name with or without  *)
(* quotes, the first list of the line that they choose.                      *)

ConfiguredChannels(lines) ==
    LET sources == {i \in DOMAIN lines : lines[i].kind = "source"}
        named == First({i \in sources : LET names == Values(lines[i].opts, "name")
                                        IN  names # <<>> /\ Head(names).name = SourceName})
        chosen == IF named # 0 THEN named ELSE First(sources)
        lists == IF chosen = 0 THEN <<>> ELSE Values(lines[chosen].opts, "channels")
    IN  IF lists = <<>> \/ Head(lists) = <<>> THEN Nothing ELSE Head(lists)

\* collector.py, load_config(): the last line.
PollInterval(lines) ==
    LET its == SelectSeq(lines, LAMBDA l : l[1] = "POLL_INTERVAL") IN IF its = <<>> THEN DefaultPoll ELSE Last(its)[2]

=============================================================================
