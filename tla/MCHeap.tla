------------------------------- MODULE MCHeap -------------------------------
EXTENDS Heap

CONSTANTS s1, s2, s3, o1, o2, o3, o4, k1, k2, k3, k4   \* k: blocks that are kept

MCSlots == {s1, s2, s3}
MCOldSlots == {o1, o2, o3, o4, k1, k2, k3, k4}
MCMmapPages == 32 .. 40
Gets(slot, bytes) == [slot |-> slot, bytes |-> bytes]
Frees(slot) == [slot |-> slot, bytes |-> 0]

Alone == [Calm EXCEPT !.map = "refused"]
None == [calls |-> {}, sizes |-> {}, arrays |-> {}, alignments |-> {}, limits |-> {},
         options |-> {}, sbrks |-> {}, most_sbrks |-> 2, spaces |-> {}, loans |-> {}, environments |-> {Alone}, start |-> <<>>,
         most |-> 3, kept |-> {k1, k2, k3, k4}, system |-> [brk |-> 4096, ceiling |-> 5120]]

(* Small chunks of every kind between chunks that stay. *)
Small == [None EXCEPT !.calls = {"malloc", "free"}, !.sizes = {8, 36}, !.most = 8,
            !.start = << Gets(o1, 12), Gets(k1, 8), Gets(o2, 12), Gets(k2, 8), Gets(o3, 24), Gets(k3, 8),
                         Gets(o4, 36), Gets(k4, 8) >>]
(* Large chunks of one tree between chunks that stay. *)
Large == [None EXCEPT !.calls = {"malloc", "free"}, !.sizes = {100, 156}, !.most = 7,
            !.start = << Gets(o1, 156), Gets(k1, 8), Gets(o2, 156), Gets(o3, 124), Gets(k2, 8),
                         Gets(o4, 172), Gets(k3, 8) >>]
Resizing == [None EXCEPT !.calls = {"malloc", "free", "realloc", "realloc_in_place"}, !.sizes = {20, 200},
               !.start = << Gets(o1, 40), Gets(k1, 8) >>]
Aligning == [None EXCEPT !.calls = {"free", "memalign", "posix_memalign"}, !.sizes = {8},
               !.alignments = {24, 64}, !.most = 5,
               !.start = << Gets(o1, 140), Gets(k1, 8), Gets(o2, 60), Gets(k2, 8) >>]
OnPages == [None EXCEPT !.calls = {"free", "valloc", "posix_memalign"}, !.sizes = {300},
              !.alignments = {0, 4}, !.most = 3, !.system.ceiling = 5376]
Several == [None EXCEPT !.calls = {"independent", "bulk_free"}, !.sizes = {8, 60}]
Arrays == [None EXCEPT !.calls = {"calloc", "free"}, !.start = << Gets(o1, 60), Gets(k1, 8) >>,
             !.arrays = {<<0, 8>>, <<3, 20>>, <<257, 256>>}]

HeapPrograms == {Small, Large, Resizing, Aligning, OnPages, Several, Arrays}

-----------------------------------------------------------------------------
(* The heap between its callers and the system. *)
Elsewhere == [Calm EXCEPT !.map = "apart"]
Stubborn == [Calm EXCEPT !.unmap = FALSE, !.remap = FALSE]
Unmoved == [Calm EXCEPT !.brk = "stays"]
Stuck == [Calm EXCEPT !.brk = "fails"]
Barren == [Alone EXCEPT !.brk = "fails"]

Growing == [None EXCEPT !.calls = {"malloc", "free", "trim"}, !.sizes = {300},
              !.environments = {Calm, Elsewhere, Stubborn}, !.system.ceiling = 4608]
Crowded == [Growing EXCEPT !.sizes = {200}, !.system.ceiling = 4352]
Immovable == [Growing EXCEPT !.most = 2, !.environments = {Calm, Alone, Unmoved, Stuck, Barren}]
Mapped == [None EXCEPT !.calls = {"malloc", "free", "trim"}, !.sizes = {200}, !.kept = {},
             !.start = << Gets(o1, 180), Gets(k1, 8), Frees(o1), Gets(o2, 40), Frees(o2) >>,
             !.environments = {Calm, Elsewhere}, !.system.ceiling = 4096]
Sharing == [None EXCEPT !.calls = {"malloc", "free", "sbrk"}, !.sizes = {40, 300}, !.most = 2,
              !.environments = {Calm}, !.sbrks = {4, 256}, !.system.ceiling = 5632]
Tuning == [None EXCEPT !.calls = {"malloc", "free", "mallopt"}, !.sizes = {40, 300},
             !.options = {<<"M_GRANULARITY", 512>>, <<"M_GRANULARITY", 3>>,
                          <<"M_MMAP_THRESHOLD", 100>>, <<"M_TRIM_THRESHOLD", -1>>},
             !.environments = {Calm}, !.most = 2]
Mapping == [None EXCEPT !.calls = {"malloc", "free", "realloc", "memalign"}, !.sizes = {600, 1000},
              !.alignments = {64}, !.start = << Gets(k1, 8) >>,
              !.environments = {Calm, Stubborn}, !.system.ceiling = 4352]
Limited == [None EXCEPT !.calls = {"malloc", "free", "footprint_limit"}, !.sizes = {40, 600},
              !.start = << Gets(k1, 8) >>,
              !.environments = {Stubborn, Calm}, !.limits = {300, 1200, MAX_SIZE_T}]

(* Spaces on memory of the system, and on memory of the caller. *)
Spaces == [None EXCEPT !.calls = {"malloc", "free", "trim", "track_large_chunks", "destroy_mspace"},
             !.sizes = {200, 600}, !.most = 2, !.spaces = {0, 200}, !.loans = {<<2052, 600>>, <<2052, 100>>},
             !.environments = {Calm}, !.system.ceiling = 4096]

LimitOfZero == {[Limited EXCEPT !.limits = {0}]}
SystemPrograms == {Growing, Crowded, Immovable, Mapped, Sharing, Tuning, Mapping, Limited, Spaces}
Symmetry == Permutations({s1, s2, s3})
=============================================================================
