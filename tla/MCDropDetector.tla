-------------------------- MODULE MCDropDetector --------------------------
EXTENDS DropDetector

\* A step back; in sequence; a residual of half a packet, which calibration
\* must learn; a lost packet.
MCJumps == {-16, 0, 8, 20}
=============================================================================
