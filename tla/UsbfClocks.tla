----------------------------- MODULE UsbfClocks -----------------------------
(***************************************************************************)
(* The clock of the bus, hclk, and that of the PHY, phy_clk.  Each step is *)
(* a rising edge of one of them, or of both.  There are PMIN to PMAX edges *)
(* of phy_clk from one edge of hclk to the next, and at most HMAX of hclk  *)
(* between two of phy_clk.                                                 *)
(***************************************************************************)
EXTENDS Naturals

CONSTANTS HMAX, PMIN, PMAX

ASSUME ClocksAssumption == /\ HMAX \in Nat \ {0} /\ PMIN \in Nat /\ PMAX \in Nat \ {0}
                           /\ PMIN <= PMAX /\ (PMIN > 0 => HMAX = 1)

VARIABLES hedges,   \* edges of hclk since the last of phy_clk
          pedges    \* edges of phy_clk since the last of hclk

clocks == <<hedges, pedges>>

ClocksInit == hedges = 0 /\ pedges \in 0 .. PMAX

(* Where the last one of both counts for each. *)
HclkRises == hedges < HMAX /\ pedges >= PMIN /\ hedges' = hedges + 1 /\ pedges' = 0
PhyRises  == pedges < PMAX /\ pedges' = pedges + 1 /\ hedges' = 0
BothRise  == pedges < PMAX /\ pedges + 1 >= PMIN /\ hedges' = 0 /\ pedges' = 0
=============================================================================
