------------------------- MODULE ProducerWatermarks -------------------------
(***************************************************************************)
(* What producer_plugin_impl::start_block decides from the watermark of    *)
(* the scheduled producer p: whether it may sign on top of a head with     *)
(* number head_num, and how many blocks below the new one it confirms.     *)
(* marks is _producer_watermarks, a function of the producers that have    *)
(* one: the highest number each of them has signed.                        *)
(***************************************************************************)
EXTENDS Integers

CONSTANT uint16_values      \* 2^16, the values of blocks_to_confirm

ASSUME Uint16Assumption == uint16_values \in Nat \ {0}

(* Mutant: a producer may sign at its watermark again. *)
allows_same_number(marks, p, head_num) == p \in DOMAIN marks => marks[p] <= head_num + 1

watermark_allows(marks, p, head_num) == p \in DOMAIN marks => marks[p] < head_num + 1

(* Mutants: the block at the watermark is confirmed again; a producer without a
   watermark confirms everything it can. *)
confirm_watermark_again(marks, p, head_num) ==
    IF p \in DOMAIN marks /\ marks[p] < head_num THEN head_num - marks[p] + 1 ELSE 0
confirm_all_without_watermark(marks, p, head_num) ==
    IF p \notin DOMAIN marks THEN head_num - 1
    ELSE IF marks[p] < head_num THEN head_num - marks[p] ELSE 0

(* Everything above the watermark, cast to 16 bits; nothing for a producer that
   has no watermark or whose watermark is on a higher branch. *)
blocks_to_confirm(marks, p, head_num) ==
    IF p \in DOMAIN marks /\ marks[p] < head_num
    THEN (head_num - marks[p]) % uint16_values ELSE 0
=============================================================================
