--------------------------- MODULE MCCertificates ---------------------------
(* Instances of Certificates.                                               *)
EXTENDS Certificates, TLC

CONSTANTS p1, p2,
          InARow,  \* calls of a pod that may fail in a row
          One,     \* cases of a pod on its own: what may happen
          Two      \* cases of two pods

Bounds(set) == [b \in Bounded |-> IF b \notin set THEN 0 ELSE IF b = "fault" THEN InARow ELSE 1]
MCCases == [pods : {{p1}}, bound : {Bounds(s) : s \in One}]
      \cup [pods : {{p1, p2}}, bound : {Bounds(s) : s \in Two}]
=============================================================================
