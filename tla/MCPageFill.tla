----------------------------- MODULE MCPageFill -----------------------------
(* PageFill with the program's page, header and slot sizes.  The range of  *)
(* uint32_t is scaled down to 2^16, as TLC's integers are 32 bits wide.    *)
EXTENDS PageFill

Row(n, v) == [size |-> n, value |-> v]

\* The widest row of 64 columns; what fills a page beside it, exactly and by
\* half a slot too much; and rows between.
TableRows ==
  {Row(2052, 1), Row(2000, 1), Row(2004, 1), Row(1500, 1), Row(700, 1), Row(700, 2)}
=============================================================================
