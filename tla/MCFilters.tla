------------------------------- MODULE MCFilters -------------------------------
(***************************************************************************)
(* Instances of Filters for TLC.  Samples are multiples of a power of two  *)
(* large enough for the divisions of the biquad to be exact.               *)
(***************************************************************************)
EXTENDS Filters

(* One cycle per sample is 1000: a quarter of it, and a slow 1/1000 whose  *)
(* sine vanishes on the grid.                                              *)
PhaseTable == [p \in {1, 250} |-> IF p = 1 THEN [sin |-> 0, cos |-> One]
                                  ELSE [sin |-> One, cos |-> 0]]

LowPass == Design("LP", 250, 2, 1)
HighPass == Design("HP", 250, 2, 1)
BandPass == Design("BP", 250, 2, 1)
Delaying == [b0 |-> 0, b1 |-> 4, b2 |-> 0, a1 |-> -2, a2 |-> 0]
Growing == [b0 |-> 4, b1 |-> 0, b2 |-> 0, a1 |-> 3, a2 |-> 2]
Silent == [b0 |-> 0, b1 |-> 0, b2 |-> 0, a1 |-> 0, a2 |-> 0]
Undamped == Design("NOTCH", 1, 2, 1)

KindConfigs ==
  [LP1     |-> {[alpha |-> a] : a \in {0, 1, One, One + 1, NaN}},
   MA      |-> {[M |-> n] : n \in {0, 1, 2, 3, 5}},
   BIQUAD  |-> {[sections |-> s] : s \in
                  {<<>>, <<LowPass, Delaying>>, <<HighPass>>, <<Growing, BandPass>>,
                   <<Delaying, Growing>>, <<Silent>>, <<Undamped>>}},
   RATELIM |-> {[rate_rise |-> r[1], rate_fall |-> r[2]] :
                  r \in {<<1024, 512>>, <<300, 2000>>, <<0, 1>>, <<1, NaN>>}}]

CutoffSet == {<<1, 1>>, <<250, 1>>, <<NaN, 1>>, <<4000, 40>>}

(* A good design, a marginally stable one, one whose damping overflows,    *)
(* one at the Nyquist rate and one for a section there is not.             *)
RetuneSet == {<<1, 250, 2, 1>>, <<1, 1, 2, 1>>, <<2, 250, 1, 1>>, <<1, 500, 2, 1>>, <<9, 1, 2, 1>>}

InputSet == {-1024, 0, 1024, NaN}
PeriodSet == {0, 1, 2, NaN}
=============================================================================
