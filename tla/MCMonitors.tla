------------------------------ MODULE MCMonitors ------------------------------
(***************************************************************************)
(* Instances of Monitors for TLC.  A sample is <<r, y, u, dt>>; one monitor *)
(* is attached at a time, each with the samples that matter to it.         *)
(***************************************************************************)
EXTENDS Monitors

OneAtATime == {{"health"}, {"metrics"}}

Watch == [t_sat_max |-> 3, err_diverge_thresh |-> 1, osc_count_thresh |-> 1,
          dead_band |-> 2, dropout_time |-> 4, ss_err_thresh |-> 0,
          settling_time |-> 4, cb |-> TRUE]
(* Its sensor never drops out, and its callback is not registered. *)
Lenient == [Watch EXCEPT !.dead_band = 0, !.osc_count_thresh = 2, !.t_sat_max = 5,
                         !.cb = FALSE]
(* More sign changes than the window can hold: refused. *)
Overlong == [Watch EXCEPT !.osc_count_thresh = 4]
Watches == {Watch, Lenient, Overlong}

Cumulative == [mode |-> "CUMULATIVE", window_steps |-> 0, band_pct |-> 20,
               settle_confirm |-> 2, step_thresh |-> 3]
Windowed == [Cumulative EXCEPT !.mode = "WINDOWED", !.window_steps = 3, !.settle_confirm = 0]
Measures == {Cumulative, Windowed, [Windowed EXCEPT !.window_steps = 0]}

SampleSet ==
  {[r |-> s[1], y |-> s[2], u |-> s[3], dt |-> s[4]] :
     s \in {<<0, 0, 0, 1>>, <<0, 1, 0, 2>>, <<4, 0, 1, 1>>,
            <<4, 4, 1, 1>>, <<4, 5, 0, 2>>, <<0, NaN, 0, 1>>}}
=============================================================================
