----------------------------- MODULE MCGcTuner -----------------------------
(* GcTuner with 6-bit integers: rates of up to 40 leave their signed half. *)
EXTENDS GcTuner

SomeSizes == {0, 3, 20}
WithZero == {0, 1, 2}

=============================================================================
