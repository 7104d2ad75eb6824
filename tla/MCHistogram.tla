---------------------------- MODULE MCHistogram -----------------------------
(* Instances of Histogram for TLC: latencies in half microseconds.         *)
EXTENDS Histogram

(* A first bucket, the first of a decade, the one without a limit, and a   *)
(* clock that was set back.                                                *)
MCEdges == {-1, 3, 20, 200}

(* A percentile in the last bucket is scaled by at least 1/20 of an        *)
(* operation when there are fewer than 20 of them: Huge is large enough to *)
(* exceed max_ there, as 1e200 is.                                         *)
ASSUME HugeIsClamped ==
  /\ MaxAdds * NumHistograms < 20
  /\ \A v \in Values : Huge > 20 * MaxAdds * NumHistograms * v

(* Histograms of two decades, one after the other of which the code has    *)
(* nine: every half microsecond from before 0 to beyond the last limit.    *)
TwoDecades == INSTANCE Histogram WITH Decades <- 2, Huge <- 200000
MCSweep == -3 .. 2500

(* AddFast counts a latency where the search through the limits does.      *)
ASSUME FastPosIsPos ==
  \A v \in MCSweep : TwoDecades!AddFastPos(v) = TwoDecades!AddPos(v)
=============================================================================
