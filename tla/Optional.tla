------------------------------ MODULE Optional ------------------------------
(* What a parameter, or a part of an address, is that was not given.        *)

CONSTANT Undefined

(* `value || default`, and the defaults of parameters.                      *)
Or(value, default) == IF value = Undefined THEN default ELSE value
=============================================================================
