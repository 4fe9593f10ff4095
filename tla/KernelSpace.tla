---------------------------- MODULE KernelSpace ----------------------------
(***************************************************************************)
(* The kernel's half of the address space: its regions and the page        *)
(* directories that map it, each a part of its own.  region_alloc.c only   *)
(* asks for pages of descriptors to be mapped, and paging.c knows nothing  *)
(* of regions but the one an address lies in.                              *)
(***************************************************************************)
EXTENDS Integers, Parts

CONSTANTS PdThreads, KernelPd, ProcessPds, KernelTables, UserTable, TablePages, TableFrames,
          NoTable
VARIABLES pd_page, pd_itself, pd_made, pd_mapped, pd_free, pd_inuse, pd_cr3, pd_paging, pd_broken

Pd == INSTANCE PageDirs WITH
  Threads <- PdThreads, Kernel <- KernelPd, Processes <- ProcessPds, Tables <- KernelTables,
  User <- UserTable, Pages <- TablePages, Frames <- TableFrames, None <- NoTable,
  page <- pd_page, itself <- pd_itself, made <- pd_made, mapped <- pd_mapped, free <- pd_free,
  inuse <- pd_inuse, cr3 <- pd_cr3, paging <- pd_paging, broken <- pd_broken

CONSTANTS AddrSpace, SizesAsked, BigSize, BaseDescs, ReserveDescs, DescsPerPage, NoAddr
VARIABLES rg_by_addr, rg_by_size, rg_size, rg_bigger, rg_used, rg_unused, rg_own, rg_panic

Rg == INSTANCE RegionAlloc WITH
  Space <- AddrSpace, Sizes <- SizesAsked, Base <- BaseDescs, Reserve <- ReserveDescs,
  PerPage <- DescsPerPage, None <- NoAddr,
  by_addr <- rg_by_addr, by_size <- rg_by_size, size <- rg_size, first_bigger <- rg_bigger,
  used <- rg_used, unused <- rg_unused, own <- rg_own, panic <- rg_panic

ASSUME SpaceAssumption == Rg!RegionAssumption /\ Pd!PageDirsAssumption

region_vars == <<rg_by_addr, rg_by_size, rg_size, rg_bigger, rg_used, rg_unused, rg_own,
                 rg_panic>>
dir_vars == <<pd_page, pd_itself, pd_made, pd_mapped, pd_free, pd_inuse, pd_cr3, pd_paging,
              pd_broken>>
space_vars == <<region_vars, dir_vars>>

-----------------------------------------------------------------------------
NoRegions == /\ rg_by_addr = Null /\ rg_by_size = Null /\ rg_size = Null /\ rg_bigger = Null
             /\ rg_used = Null /\ rg_unused = Null /\ rg_own = Null /\ rg_panic = Null
NoDirs == /\ pd_page = Null /\ pd_itself = Null /\ pd_made = Null /\ pd_mapped = Null
          /\ pd_free = Null /\ pd_inuse = Null /\ pd_cr3 = Null /\ pd_paging = Null
          /\ pd_broken = Null
NoSpace == NoRegions /\ NoDirs

SpaceInit ==
  \/ which = "regions" /\ Rg!Init /\ NoDirs
  \/ which = "paging" /\ Pd!Init /\ NoRegions

SpaceNext ==
  \/ which = "regions" /\ Rg!Next /\ UNCHANGED <<which, dir_vars>>
  \/ which = "paging" /\ Pd!Next /\ UNCHANGED <<which, region_vars>>

SpaceSpec == SpaceInit /\ [][SpaceNext]_<<which, space_vars>>

\* Kernel address space is partitioned, its free regions are joined and listed
\* by size with their shortcuts, and it is never short of descriptors; what is
\* mapped in it is found in every page directory.
RegionsExact ==
  /\ which = "regions" => Rg!RegionsExact /\ Rg!ListsAgree /\ Rg!DescriptorsSuffice
  /\ which = "paging" => Pd!PagingExact
=============================================================================
