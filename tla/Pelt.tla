--------------------------------- MODULE Pelt ---------------------------------
(***************************************************************************)
(* The arithmetic of the load averages (load.hpp): a sum of the time that  *)
(* was spent runnable, in which every period of 1024 units (about a        *)
(* millisecond) counts y times the period after it, y^32 = 1/2.            *)
(*                                                                         *)
(* Times are counted in 256 ns, of which a jiffy of 4 ms is a multiple: so *)
(* TLC's integers hold them.  For the same reason a factor of 32 bits is a *)
(* sequence of digits; the result is the one the code computes, as long as *)
(* the sums are below 2^29.                                                *)
(***************************************************************************)
EXTENDS Integers, Sequences

LOAD_AVG_PERIOD == 32
LOAD_AVG_MAX == 47742
SCHED_CAPACITY_SCALE == 1024
JIFFY == 15625              \* of 256 ns
UNIT == 4                   \* 1024 ns

\* runnable_avg_yN_inv: y^n in units of 2^-32, as two halves of 16 bits.
yN_inv ==
   << <<\HFFFF, \HFFFF>>, <<\HFA83, \HB2DA>>, <<\HF525, \H7D14>>, <<\HEFE4, \HB99A>>,
      <<\HEAC0, \HC6E6>>, <<\HE5B9, \H06E6>>, <<\HE0CC, \HDEEB>>, <<\HDBFB, \HB796>>,
      <<\HD744, \HFCC9>>, <<\HD2A8, \H1D91>>, <<\HCE24, \H8C14>>, <<\HC9B9, \HBD85>>,
      <<\HC567, \H2A10>>, <<\HC12C, \H4CC9>>, <<\HBD08, \HA39E>>, <<\HB8FB, \HAF46>>,
      <<\HB504, \HF333>>, <<\HB123, \HF581>>, <<\HAD58, \H3EE9>>, <<\HA9A1, \H5AB4>>,
      <<\HA5FE, \HD6A9>>, <<\HA270, \H4302>>, <<\H9EF5, \H325F>>, <<\H9B8D, \H39B9>>,
      <<\H9837, \HF050>>, <<\H94F4, \HEFA8>>, <<\H91C3, \HD373>>, <<\H8EA4, \H398A>>,
      <<\H8B95, \HC1E3>>, <<\H8898, \H0E80>>, <<\H85AA, \HC367>>, <<\H82CD, \H8698>> >>

\* Its digits to the base 4, the last one first.
Digits == [n \in 0 .. 31 |-> [i \in 1 .. 16 |->
             (yN_inv[n + 1][IF i <= 8 THEN 2 ELSE 1] \div 4^((i - 1) % 8)) % 4]]

\* val * yN_inv[n] >> 32.
Scaled(val, n) ==
    LET product[i \in 0 .. 16] == IF i = 0 THEN 0
                                  ELSE (product[i - 1] + val * Digits[n][i]) \div 4
    IN  product[16]

decay_load(val, n) ==
    IF n > LOAD_AVG_PERIOD * 63 THEN 0
    ELSE Scaled(val \div 2^(n \div LOAD_AVG_PERIOD), n % LOAD_AVG_PERIOD)

\* Mutant: the period that is not over is counted as a full one, too.
accumulate_pelt_segments_whole(periods, d1, d3) ==
    decay_load(d1, periods) + (LOAD_AVG_MAX - decay_load(LOAD_AVG_MAX, periods)) + d3

\* The end of the period that was begun, the full periods, the new one.
accumulate_pelt_segments(periods, d1, d3) ==
    decay_load(d1, periods) + (LOAD_AVG_MAX - decay_load(LOAD_AVG_MAX, periods) - 1024) + d3

\* struct sched_avg.
NewAvg == [last_update_time |-> 0, period_contrib |-> 0,
           load_sum |-> 0, runnable_load_sum |-> 0, util_sum |-> 0,
           load_avg |-> 0, runnable_load_avg |-> 0, util_avg |-> 0]

Divider(a) == LOAD_AVG_MAX - 1024 + a.period_contrib

\* accumulate_sum: delta units have passed.
accumulate_sum(a, delta, load, runnable, running) ==
    LET total == delta + a.period_contrib
        periods == total \div 1024
        rest == total % 1024
        contrib == IF periods = 0 THEN delta
                   ELSE accumulate_pelt_segments(periods, 1024 - a.period_contrib, rest)
        aged(sum) == IF periods = 0 THEN sum ELSE decay_load(sum, periods)
    IN  [a EXCEPT !.period_contrib = rest,
                  !.load_sum = aged(@) + load * contrib,
                  !.runnable_load_sum = aged(@) + runnable * contrib,
                  !.util_sum = aged(@) + running * contrib * SCHED_CAPACITY_SCALE]

\* _update_load_avg: the sums over the greatest possible sum, rounded.
Averaged(a, load, runnable) ==
    LET rounded(x) == (x + (x % Divider(a))) \div Divider(a)
    IN  [a EXCEPT !.load_avg = rounded(load * a.load_sum),
                  !.runnable_load_avg = rounded(runnable * a.runnable_load_sum),
                  !.util_avg = a.util_sum \div Divider(a)]

\* _update_load_sum, and _update_load_avg if a period has ended.
Updated(a, now, load, runnable, running, load_weight, runnable_weight) ==
    LET delta == (now - a.last_update_time) \div UNIT
        later == [a EXCEPT !.last_update_time = @ + delta * UNIT]
        summed == IF load = 0 THEN accumulate_sum(later, delta, 0, 0, 0)
                  ELSE accumulate_sum(later, delta, load, runnable, running)
    IN  IF delta = 0 THEN a
        ELSE IF delta + a.period_contrib < 1024 THEN summed
        ELSE Averaged(summed, load_weight, runnable_weight)
=============================================================================
