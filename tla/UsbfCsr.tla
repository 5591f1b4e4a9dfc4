------------------------------ MODULE UsbfCsr ------------------------------
(***************************************************************************)
(* The register file (usbf_csr.v), as far as it has a say in the protocol: *)
(* the configuration of the endpoints, the function address, the           *)
(* interrupt latches and what the processor reads of the endpoint status.  *)
(* A write of the processor arrives at the pins in the clock in which it   *)
(* takes effect, so the one-clock registers that turn a write into a pulse *)
(* (tx_start_r, rx_accept_r, ep_intsts_rx_ready_r and their like) are      *)
(* folded into the pins.                                                   *)
(***************************************************************************)
EXTENDS UsbRegs

CONSTANTS EP,      \* the endpoints
          Dev      \* device addresses

VARIABLES
  ep_cfg_int_rx_r, ep_cfg_int_tx_r, ep_cfg_stall_ep_r, ep_cfg_iso_r,
  func_addr_r, int_en_sof_r, int_en_rst_r, phy_termselect_r,
  intr_ep_rx_ready_r, intr_ep_tx_complete_r, intr_sof_r, intr_reset_r,
  \* input pins: writes of the processor
  ep_cfg_wt_en, cfg_wdata_i, func_addr_wt_en, addr_wdata_i,
  func_ctrl_wt_en, ctrl_wdata_i,
  ep_intsts_rx_ready_clr, ep_intsts_tx_complete_clr, stat_sof_clr, stat_rst_clr,
  \* input pins: the endpoint unit and the core
  ep_sts_tx_err_i, ep_sts_tx_busy_i, ep_sts_rx_err_i, ep_sts_rx_setup_i,
  ep_sts_rx_ready_i, ep_sts_rx_count_i,
  ep_rx_ready_intr_set_i, ep_tx_complete_intr_set_i, sof_intr_set_i, rst_intr_set_i

TypeOK ==
  /\ {ep_cfg_int_rx_r, ep_cfg_int_tx_r, ep_cfg_stall_ep_r, ep_cfg_iso_r,
      intr_ep_rx_ready_r, intr_ep_tx_complete_r} \subseteq [EP -> BOOLEAN]
  /\ func_addr_r \in Dev
  /\ {int_en_sof_r, int_en_rst_r, phy_termselect_r, intr_sof_r, intr_reset_r} \subseteq BOOLEAN

Init ==
  /\ ep_cfg_int_rx_r = [i \in EP |-> FALSE]
  /\ ep_cfg_int_tx_r = [i \in EP |-> FALSE]
  /\ ep_cfg_stall_ep_r = [i \in EP |-> FALSE]
  /\ ep_cfg_iso_r = [i \in EP |-> FALSE]
  /\ func_addr_r = 0
  /\ int_en_sof_r = FALSE
  /\ int_en_rst_r = FALSE
  /\ phy_termselect_r = FALSE
  /\ intr_ep_rx_ready_r = [i \in EP |-> FALSE]
  /\ intr_ep_tx_complete_r = [i \in EP |-> FALSE]
  /\ intr_sof_r = FALSE
  /\ intr_reset_r = FALSE

-----------------------------------------------------------------------------
(* The configuration registers.  A write can set the stall of an endpoint  *)
(* and cannot clear it: only a SETUP in the endpoint's buffer does.        *)
Written(reg, field) == [i \in EP |-> IF ep_cfg_wt_en[i] THEN cfg_wdata_i[field] ELSE reg[i]]

Configure ==
  /\ ep_cfg_int_rx_r' = Written(ep_cfg_int_rx_r, "int_rx")
  /\ ep_cfg_int_tx_r' = Written(ep_cfg_int_tx_r, "int_tx")
  /\ ep_cfg_iso_r' = Written(ep_cfg_iso_r, "iso")
  /\ ep_cfg_stall_ep_r' = [i \in EP |->
       \/ ep_cfg_wt_en[i] /\ cfg_wdata_i.stall_ep
       \/ ep_cfg_stall_ep_r[i] /\ ~ep_sts_rx_setup_i[i]]
  /\ func_addr_r' = IF func_addr_wt_en THEN addr_wdata_i ELSE func_addr_r
  /\ int_en_sof_r' = IF func_ctrl_wt_en THEN ctrl_wdata_i.int_en_sof ELSE int_en_sof_r
  /\ int_en_rst_r' = IF func_ctrl_wt_en THEN ctrl_wdata_i.int_en_rst ELSE int_en_rst_r
  /\ phy_termselect_r' = IF func_ctrl_wt_en THEN ctrl_wdata_i.phy_termselect ELSE phy_termselect_r

(* An interrupt latch: an event sets it when it is clear and is lost when  *)
(* it is set, even in the clock in which the processor clears it.          *)
Latch(r, event, clear) == IF r THEN ~clear ELSE event

Interrupts ==
  /\ intr_ep_rx_ready_r' = [i \in EP |->
       Latch(intr_ep_rx_ready_r[i], ep_rx_ready_intr_set_i[i], ep_intsts_rx_ready_clr[i])]
  /\ intr_ep_tx_complete_r' = [i \in EP |->
       Latch(intr_ep_tx_complete_r[i], ep_tx_complete_intr_set_i[i], ep_intsts_tx_complete_clr[i])]
  /\ intr_sof_r' = Latch(intr_sof_r, sof_intr_set_i, stat_sof_clr)
  /\ intr_reset_r' = Latch(intr_reset_r, rst_intr_set_i, stat_rst_clr)

Clock == Configure /\ Interrupts

intr_o == \/ \E i \in EP : \/ intr_ep_rx_ready_r[i] /\ ep_cfg_int_rx_r[i]
                           \/ intr_ep_tx_complete_r[i] /\ ep_cfg_int_tx_r[i]
          \/ int_en_sof_r /\ intr_sof_r
          \/ int_en_rst_r /\ intr_reset_r

(* What the processor reads from USB_EPi_STS.  The flags of all endpoints  *)
(* are assigned as one vector to a field one bit wide, so what is left is  *)
(* the flag of endpoint 0; only the count is that of endpoint i.           *)
Sts(i) == [tx_err   |-> ep_sts_tx_err_i[0],
           tx_busy  |-> ep_sts_tx_busy_i[0],
           rx_err   |-> ep_sts_rx_err_i[0],
           rx_setup |-> ep_sts_rx_setup_i[0],
           rx_ready |-> ep_sts_rx_ready_i[0],
           rx_count |-> ep_sts_rx_count_i[i]]

(* What it reads from USB_EPi_CFG, where stall_ep reads 0, and from        *)
(* USB_EP_INTSTS.                                                          *)
EpCfg(i) == [iso |-> ep_cfg_iso_r[i], stall_ep |-> FALSE,
             int_tx |-> ep_cfg_int_tx_r[i], int_rx |-> ep_cfg_int_rx_r[i]]
EpIntsts == [rx |-> {i \in EP : intr_ep_rx_ready_r[i]},
             tx |-> {i \in EP : intr_ep_tx_complete_r[i]}]
=============================================================================
