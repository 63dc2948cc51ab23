------------------------- MODULE MCInboundDebounce -------------------------
(* Two keys, of which the debouncer tracks one.                              *)
EXTENDS InboundDebounce

CONSTANTS k1, k2

MCKeys == {k1, k2}

=============================================================================
