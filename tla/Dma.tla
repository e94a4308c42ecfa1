--------------------------------- MODULE Dma ---------------------------------
(***************************************************************************)
(* lib/dma.cpp: the transfer of a page of memory into OAM that a write to  *)
(* 0xFF46 starts.  dma_tick runs once in four ticks; after two calls that  *)
(* only wait, each call copies one byte, read from the bus at that moment. *)
(* Nothing stops the program meanwhile: it may write the page that is      *)
(* being copied, write OAM, or start another transfer.                     *)
(*                                                                         *)
(* Memory is abstracted to the contents of whole pages.  Byte k of a page  *)
(* whose contents are c is [data |-> c, index |-> k].                      *)
(***************************************************************************)
EXTENDS Naturals

CONSTANTS
  OamSize,      \* 0xA0 bytes
  StartDelay,   \* 2
  Pages,        \* the pages the program copies from
  Contents,     \* what a page may hold
  Unknown       \* a byte of OAM that no transfer wrote

ASSUME SizeAssumption  == OamSize \in Nat \ {0} /\ StartDelay \in Nat
ASSUME PagesAssumption == Pages # {}

VARIABLES
  active,       \* ctx.active
  byte,         \* ctx.byte: the next byte to copy
  value,        \* ctx.value: the page
  start_delay,  \* ctx.start_delay
  oam,          \* ram.oam
  mem,          \* the contents of each page

(* History, for the properties only. *)
  started,      \* a transfer was started
  disturbed,    \* the bytes of OAM the program changed since, itself or by
                \* writing the page before they were copied or after
  calls         \* the calls of dma_tick since, while the transfer lasted

registers == <<active, byte, value, start_delay>>
history   == <<started, disturbed, calls>>
dmaVars   == <<registers, oam, mem, history>>

Cells == 0 .. OamSize - 1
Bytes == [data : Contents, index : Cells] \cup {Unknown}

DmaInit ==
  /\ active = FALSE
  /\ byte = 0
  /\ value \in Pages
  /\ start_delay = 0
  /\ oam = [k \in Cells |-> Unknown]
  /\ mem \in [Pages -> Contents]
  /\ started = FALSE
  /\ disturbed = {}
  /\ calls = 0

(* bus_read(value * 0x100 + k) *)
BusRead(k) == [data |-> mem[value], index |-> k]
-----------------------------------------------------------------------------
(* Mutants: a transfer that was given up leaves its byte, or its delay. *)
StartKeepsByte(page) ==
  /\ active' = TRUE
  /\ start_delay' = StartDelay
  /\ value' = page
  /\ started' = TRUE
  /\ disturbed' = {}
  /\ calls' = 0
  /\ UNCHANGED <<byte, oam, mem>>

StartKeepsDelay(page) ==
  /\ active' = TRUE
  /\ byte' = 0
  /\ value' = page
  /\ started' = TRUE
  /\ disturbed' = {}
  /\ calls' = 0
  /\ UNCHANGED <<start_delay, oam, mem>>

(* dma_start, which a write of page to 0xFF46 calls: a transfer that is     *)
(* under way is given up.                                                   *)
Start(page) ==
  /\ active' = TRUE
  /\ byte' = 0
  /\ start_delay' = StartDelay
  /\ value' = page
  /\ started' = TRUE
  /\ disturbed' = {}
  /\ calls' = 0
  /\ UNCHANGED <<oam, mem>>

(* dma_tick; with no transfer under way it returns at once. *)
Wait ==
  /\ active
  /\ start_delay > 0
  /\ start_delay' = start_delay - 1
  /\ calls' = calls + 1
  /\ UNCHANGED <<active, byte, value, oam, mem, started, disturbed>>

Copy ==
  /\ active
  /\ start_delay = 0
  /\ oam' = [oam EXCEPT ![byte] = BusRead(byte)]
  /\ byte' = byte + 1
  /\ active' = (byte + 1 < OamSize)
  /\ calls' = calls + 1
  /\ UNCHANGED <<value, start_delay, mem, started, disturbed>>

DmaTick == Wait \/ Copy
-----------------------------------------------------------------------------
(* The program writes a page, or a byte of OAM. *)
WritePage(page, c) ==
  /\ mem' = [mem EXCEPT ![page] = c]
  /\ disturbed' = IF page = value /\ c # mem[page] THEN Cells ELSE disturbed
  /\ UNCHANGED <<registers, oam, started, calls>>

WriteOam(k) ==
  /\ oam' = [oam EXCEPT ![k] = Unknown]
  /\ disturbed' = disturbed \cup {k}
  /\ UNCHANGED <<registers, mem, started, calls>>

ProgramActs ==
  \/ \E page \in Pages : Start(page)
  \/ \E page \in Pages, c \in Contents : WritePage(page, c)
  \/ \E k \in Cells : WriteOam(k)

DmaNext == DmaTick \/ ProgramActs

DmaSpec == DmaInit /\ [][DmaNext]_dmaVars
-----------------------------------------------------------------------------
DmaTypeOK ==
  /\ active \in BOOLEAN
  /\ byte \in 0 .. OamSize
  /\ value \in Pages
  /\ start_delay \in 0 .. StartDelay
  /\ oam \in [Cells -> Bytes]
  /\ mem \in [Pages -> Contents]
  /\ started \in BOOLEAN
  /\ disturbed \in SUBSET Cells
  /\ calls \in Nat

(* The cells before byte hold the page of the latest transfer, each byte in *)
(* its place, whatever transfers were given up before; so a transfer that   *)
(* has ended has copied the whole page and no byte of another one is left.  *)
CopiedSoFar ==
  started =>
    /\ ~active => byte = OamSize
    /\ \A k \in Cells \ disturbed : k < byte => oam[k] = BusRead(k)

(* A transfer never writes outside OAM, and takes as many calls of dma_tick *)
(* as OAM has bytes and the start delay has, no matter how often it was     *)
(* started over: the time a program's wait loop in high RAM counts on.      *)
TakesItsTime ==
  /\ active => byte < OamSize
  /\ started => calls = StartDelay - start_delay + byte
=============================================================================
