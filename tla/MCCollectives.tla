---------------------------- MODULE MCCollectives ----------------------------
(***************************************************************************)
(* Collectives of three ranks with at most two values each: sums that      *)
(* overflow on one rank or only in the total, infinities of both signs,    *)
(* NaNs, and ranks that own nothing.                                       *)
(***************************************************************************)
EXTENDS Collectives

MCBlock(k, r) ==
  CASE k = "int" ->
         IF r = 0 THEN {<<>>, <<2, 1>>, <<2>>} ELSE IF r = 1 THEN {<<>>, <<-1>>} ELSE {<<>>, <<0, 1>>}
    [] k = "float" ->
         IF r = 0 THEN {<<>>, <<NaN>>, <<-2, -2>>}
         ELSE IF r = 1 THEN {<<Infinity>>, <<1, 0>>} ELSE {<<>>, <<-Infinity, 1>>}
    [] OTHER -> {<<>>}
==============================================================================
