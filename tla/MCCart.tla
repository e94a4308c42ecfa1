------------------------------- MODULE MCCart -------------------------------
(***************************************************************************)
(* The cartridges TLC loads: every controller, small and large ROMs (up to *)
(* and beyond the 32 banks that one register of the MBC1 can number, and   *)
(* beyond the 256 of one register of the MBC5), none, one and several      *)
(* banks of RAM, with and without a clock.  The bytes written have each    *)
(* field of a register at zero, in the middle and at its limit.            *)
(***************************************************************************)
EXTENDS Cart

Cartridge(mbc, rtc, rom_banks, ram_banks) ==
  [mbc |-> mbc, rtc |-> rtc, rom_banks |-> rom_banks, ram_banks |-> ram_banks]

MCCarts == {
  Cartridge("none", FALSE, 2, 0),
  Cartridge("mbc1", FALSE, 32, 4),
  Cartridge("mbc1", FALSE, 128, 1),
  Cartridge("mbc3", TRUE, 128, 4),
  Cartridge("mbc3", FALSE, 64, 0),
  Cartridge("mbc5", FALSE, 512, 4) }

MCWritten == {0, 1, 8, 10, 128, 255}
=============================================================================
