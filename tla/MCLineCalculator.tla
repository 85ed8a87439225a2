--------------------------- MODULE MCLineCalculator ---------------------------
(* A small instance of LineCalculator: values at which rounding has ties,  *)
(* a price below a cent, a negative price, and values with one digit more  *)
(* than their columns.                                                     *)
EXTENDS LineCalculator

(* 1.5 and 1.33335 units; 1.01, 1.015 and -1.03 pesos; 19 and 19.125 %     *)
MCQuantities == {150000, 133335}
MCPrices     == {1010, 1015, -1030}
MCRates      == {19000, 19125}
=============================================================================
