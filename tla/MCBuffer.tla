------------------------------ MODULE MCBuffer ------------------------------
EXTENDS Buffer
\* A beacon with both fields, one without the client count, and one without the channel.
Beacon(ch, cr, n) == [conf |-> [f \in Fields |-> IF f = "channel" THEN ch ELSE cr], clients |-> n]
MCBeacons == {Beacon(1, 1, 2), Beacon(2, Null, Null)}
\* A clock one and a half poll periods behind, and one ahead.
MCDrifts == {3, -3}
\* What is sent depends neither on the file's versions nor on the clock: a version
\* set back and a kill within an upgrade are followed without the uploader, and so
\* is a boot whose clock is ahead, or with an upgrade that raised ahead.
Uploading == open # NoBatch \/ cursor.polls > 0 \/ anchors # {} \/ late # {}
Apart == Uploading => kills = 0 /\ ahead = 0 /\ drift > 0
=============================================================================
