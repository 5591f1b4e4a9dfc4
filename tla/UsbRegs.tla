------------------------------ MODULE UsbRegs ------------------------------
(***************************************************************************)
(* The registers of the device as the program sees them (openusb_regs.h):  *)
(* the fields it reads and writes, and one operation per access that       *)
(* changes something in the device.  Reading any register but              *)
(* USB_EPi_DATA changes nothing.                                           *)
(***************************************************************************)
EXTENDS Naturals

(* The fields of a register, as far as the program uses them. *)
FUNC_CTRL == [int_en_sof : BOOLEAN, int_en_rst : BOOLEAN, phy_termselect : BOOLEAN]
EPx_CFG   == [iso : BOOLEAN, stall_ep : BOOLEAN, int_tx : BOOLEAN, int_rx : BOOLEAN]
EPx_STS   == [rx_count : Nat, rx_ready : BOOLEAN, rx_setup : BOOLEAN,
              rx_err : BOOLEAN, tx_busy : BOOLEAN, tx_err : BOOLEAN]
EP_INTSTS(EP) == [rx : SUBSET EP, tx : SUBSET EP]

(* The accesses. *)
NoOp           == [op |-> "none",     ep |-> 0]
Accept(i)      == [op |-> "accept",   ep |-> i]
RxFlush(i)     == [op |-> "rx_flush", ep |-> i]
Start(i, len)  == [op |-> "start",    ep |-> i,  arg |-> len]
TxFlush(i)     == [op |-> "tx_flush", ep |-> i]
FlushStart(i, len) == [op |-> "flush_start", ep |-> i, arg |-> len]
Write(i, byte) == [op |-> "write",    ep |-> i,  arg |-> byte]
Read(i)        == [op |-> "read",     ep |-> i]
Cfg(i, data)   == [op |-> "cfg",      ep |-> i,  arg |-> data]
Ctrl(data)     == [op |-> "ctrl",     ep |-> 0,  arg |-> data]
SetAddr(dev)   == [op |-> "addr",     ep |-> 0,  arg |-> dev]
Intsts(ints)   == [op |-> "intsts",   ep |-> 0,  arg |-> ints]
Stat(rst)      == [op |-> "stat",     ep |-> 0,  rst |-> rst]
=============================================================================
