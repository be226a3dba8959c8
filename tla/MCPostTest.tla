----------------------------- MODULE MCPostTest -----------------------------
(* Instances of PostTest for TLC. *)
EXTENDS PostTest

AllPrograms == <<"i2c", "gpio_loop", "uart_tile", "usb_disk">>
RomOnly     == <<"i2c">>
=============================================================================
