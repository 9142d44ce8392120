------------------------------- MODULE Upload -------------------------------
(***************************************************************************)
(* The sensor's half of the upload: the pipeline of LiveUpload, and beside  *)
(* it what that model abstracts: how the times of a sensor without a clock  *)
(* are placed, which values the server takes, and how large batches are and *)
(* when they go.  None reads what another writes in these models: a         *)
(* behaviour is one of them at work.                                        *)
(***************************************************************************)
EXTENDS LiveUpload

CONSTANTS
  None,
  LineBoots, Skews, Start, End, LinePolls, MinTs, Future, MinShift, Margin, SentBoots, CatchUp, \* TimeLine
  Int2, Int4, Int8, Clock, Short, Long,                                                          \* WireFormat
  Sizes, Backlog, CatchUpPolls, MaxBatchBytes, MaxBody, MaxJson, MaxRows, MaxSent,
  Base, HeartbeatS, BackoffMax, Watch, Fault                                                     \* SendLoop

VARIABLES part,
  time, lineBoot, booted, skew, stepped, linePolls, lineAnchors, serverAnchors, heard, lineCursor, stored, row, refused,
  column, value, at,
  backlog, batchPolls, lastResult, phase, wait, nominal, hbWait, hbNominal, silent, left

lineVars == <<time, lineBoot, booted, skew, stepped, linePolls, lineAnchors, serverAnchors, heard, lineCursor, stored,
              row, refused>>
formatVars == <<column, value, at>>
sendVars == <<backlog, batchPolls, lastResult, phase, wait, nominal, hbWait, hbNominal, silent, left>>

Line == INSTANCE TimeLine WITH
  Boots <- LineBoots, MaxPolls <- LinePolls, MaxBoots <- SentBoots,
  now <- time, boot <- lineBoot, polls <- linePolls, anchors <- lineAnchors, device <- heard, cursor <- lineCursor

Format == INSTANCE WireFormat WITH Now <- Clock

Loop == INSTANCE SendLoop WITH
  CatchUp <- CatchUpPolls, MaxPolls <- MaxSent, pending <- backlog, maxPolls <- batchPolls

\* Times are numbers and boots are counted; NULL is neither a time nor an anchor.
ASSUME LineAssumption ==
  /\ 1 \in LineBoots /\ LineBoots \subseteq Nat
  /\ Skews \subseteq Int /\ {Start, End, MinShift} \subseteq Int /\ CatchUp \in Nat
  /\ None \notin Int \cup [wall : Int, mono : Int]
\* An integer type holds what a narrower one does, and the level of the radio;
\* a text the collector makes up, a hash, is within the limit; time has come.
ASSUME FormatAssumption ==
  /\ {Int2, Int4, Int8, MinTs, Clock, Future, Short, Long} \subseteq Nat
  /\ 4 < Int2 /\ Int2 <= Int4 /\ Int4 <= Int8 /\ Clock < Int8
  /\ 0 < MinTs /\ 45 <= Short
\* Sizes are numbers; a batch has a poll, and the process sleeps between rounds.
ASSUME LoopAssumption ==
  /\ Sizes \subseteq [bytes : Nat, json : Nat, rows : Nat]
  /\ {MaxBatchBytes, MaxBody, MaxJson, Base, HeartbeatS, Fault} \subseteq Nat /\ {CatchUpPolls, Watch} \subseteq Nat \ {0}

-----------------------------------------------------------------------------
UploadInit ==
  /\ part \in {"pipeline", "time line", "format", "send loop"}
  /\ Init /\ Line!Init
  /\ IF part = "format" THEN Format!Init ELSE column = None /\ value = None /\ at = None
  /\ IF part = "send loop" THEN Loop!Init
     ELSE backlog = <<>> /\ batchPolls = CatchUpPolls /\ lastResult = "short" /\ phase = "batches" /\ wait = 0
          /\ nominal = 0 /\ hbWait = 0 /\ hbNominal = 0 /\ silent = 0 /\ left = 0

UploadNext ==
  \/ part = "pipeline" /\ Next /\ UNCHANGED <<part, lineVars, formatVars, sendVars>>
  \/ part = "time line" /\ Line!Next /\ UNCHANGED <<part, vars, formatVars, sendVars>>
  \/ part = "format" /\ Format!Next /\ UNCHANGED <<part, vars, lineVars, sendVars>>
  \/ part = "send loop" /\ Loop!Next /\ UNCHANGED <<part, vars, lineVars, formatVars>>

UploadSpec == UploadInit /\ [][UploadNext]_<<part, vars, lineVars, formatVars, sendVars>>

-----------------------------------------------------------------------------
(* TimeLine: the server takes true times, but for the four exceptions.       *)
TimesArePlaced == part = "time line" => Line!PlacedTruly

(* WireFormat: what the collector stores the server takes.                   *)
ShapedIsAccepted == part = "format" => Format!ShapedIsAccepted

(* SendLoop: the server hears from the sensor, or its oldest poll is too      *)
(* large to be taken.                                                        *)
SilenceIsShort == part = "send loop" => Loop!SilenceIsShort
=============================================================================
