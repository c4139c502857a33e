---------------------------- MODULE LoadMethods ----------------------------
(***************************************************************************)
(* +load (objc-loadmethod.mm, load_images in objc-runtime-new.mm): mapping *)
(* an image schedules the +load methods of its classes, superclasses       *)
(* first, and of its categories; the outermost call_load_methods then      *)
(* calls them.  A +load method may itself map and unmap images.            *)
(* loadMethodLock is held throughout, so there is one caller at a time.    *)
(***************************************************************************)
EXTENDS Naturals, Sequences, SequencesExt

CONSTANTS
    Images,        \* [name -> [classes : Seq, categories : Seq, needs : SUBSET names]]
    Superclass,    \* [classes -> classes \cup {nil}]
    ClassOf,       \* [categories -> classes]
    HasLoad,       \* the classes and categories with a +load method
    nil,
    MaxMaps        \* bound: calls of load_images

VARIABLES
    mapped,               \* images
    RW_LOADED,            \* classes that were scheduled
    loadable_classes,     \* Seq(classes \cup {nil})
    loadable_categories,  \* Seq(categories \cup {nil})
    phase,                \* "idle" (~loading), "classes" or "categories"
    detached,             \* what is left of the list being called
    running,              \* the class or category whose +load is running, or nil
    called,               \* +load methods called, of images that are still mapped
    missed,               \* detached entries whose image was unmapped
    maps

vars == <<mapped, RW_LOADED, loadable_classes, loadable_categories, phase, detached,
          running, called, missed, maps>>

Init ==
    /\ mapped = {} /\ RW_LOADED = {}
    /\ loadable_classes = <<>> /\ loadable_categories = <<>>
    /\ phase = "idle" /\ detached = <<>> /\ running = nil
    /\ called = <<>> /\ missed = {} /\ maps = 0

ItemsOf(i) == Range(Images[i].classes) \cup Range(Images[i].categories)

(* Code of the program runs: outside, or in a +load method.  (One of an    *)
(* image that is gone does nothing sensible any more.)                     *)
UserCode == phase = "idle" \/ (running # nil /\ running \notin missed)

add_to_loadable_list(list, item) == IF item \in HasLoad THEN Append(list, item) ELSE list

(* schedule_class_load: the superclasses not yet scheduled, then c.        *)
schedule_class_load_OnlyThis(s, c) ==
    IF c \in s.loaded THEN s
    ELSE [loaded |-> s.loaded \cup {c}, list |-> add_to_loadable_list(s.list, c)]

schedule_class_load(s, c) ==
    LET line[k \in DOMAIN Superclass] ==
            IF k \in s.loaded THEN <<>>
            ELSE Append(IF Superclass[k] = nil THEN <<>> ELSE line[Superclass[k]], k)
    IN  FoldLeft(LAMBDA acc, k :
                     [loaded |-> acc.loaded \cup {k}, list |-> add_to_loadable_list(acc.list, k)],
                 s, line[c])

(* load_images of an image with +load methods: prepare_load_methods, and   *)
(* call_load_methods, which does nothing if it is already running.         *)
load_images(i) ==
    /\ UserCode /\ maps < MaxMaps
    /\ i \notin mapped /\ Images[i].needs \subseteq mapped
    /\ maps' = maps + 1
    /\ mapped' = mapped \cup {i}
    /\ LET s == FoldLeft(schedule_class_load,
                         [loaded |-> RW_LOADED, list |-> loadable_classes], Images[i].classes)
       IN  RW_LOADED' = s.loaded /\ loadable_classes' = s.list
    /\ loadable_categories' =
           FoldLeft(add_to_loadable_list, loadable_categories, Images[i].categories)
    /\ phase' = IF phase = "idle" THEN "classes" ELSE phase
    /\ UNCHANGED <<detached, running, called, missed>>

(* remove_class_from_loadable_list and remove_category_from_loadable_list  *)
(* clear the first entry of the attached list.                             *)
remove_from_loadable_list(list, item) ==
    IF item \in Range(list) THEN ReplaceFirstSubSeq(<<nil>>, <<item>>, list) ELSE list

(* unmap_image: dyld keeps the images that a mapped one needs, and the     *)
(* caller's own.                                                           *)
unmap_image(i) ==
    /\ UserCode /\ i \in mapped
    /\ \A j \in mapped : i \notin Images[j].needs
    /\ running \notin ItemsOf(i)
    /\ mapped' = mapped \ {i}
    /\ loadable_categories' =
           FoldLeft(remove_from_loadable_list, loadable_categories, Images[i].categories)
    /\ loadable_classes' =
           FoldLeft(remove_from_loadable_list, loadable_classes, Images[i].classes)
    /\ RW_LOADED' = RW_LOADED \ Range(Images[i].classes)
    /\ called' = SelectSeq(called, LAMBDA x : x \notin ItemsOf(i))
    /\ missed' = missed \cup (ItemsOf(i) \cap Range(detached))
    /\ UNCHANGED <<phase, detached, running, maps>>

----------------------------------------------------------------------------
(* call_class_loads: detach the list, call every entry.                    *)
DetachClasses ==
    /\ phase = "classes" /\ detached = <<>> /\ loadable_classes # <<>>
    /\ detached' = loadable_classes
    /\ loadable_classes' = <<>>
    /\ UNCHANGED <<mapped, RW_LOADED, loadable_categories, phase, running, called, missed, maps>>

(* The loops of call_class_loads and call_category_loads.                  *)
CallLoad ==
    /\ detached # <<>> /\ running = nil
    /\ running' = Head(detached)
    /\ IF Head(detached) = nil
       THEN detached' = Tail(detached) /\ UNCHANGED called
       ELSE /\ called' = IF Head(detached) \in missed THEN called
                         ELSE Append(called, Head(detached))
            /\ UNCHANGED detached
    /\ UNCHANGED <<mapped, RW_LOADED, loadable_classes, loadable_categories, phase, missed, maps>>

LoadReturns ==
    /\ running # nil
    /\ running' = nil
    /\ detached' = Tail(detached)
    /\ missed' = missed \ {running}
    /\ UNCHANGED <<mapped, RW_LOADED, loadable_classes, loadable_categories, phase, called, maps>>

DetachCategories ==
    /\ phase = "classes" /\ detached = <<>> /\ loadable_classes = <<>>
    /\ phase' = "categories"
    /\ detached' = loadable_categories
    /\ loadable_categories' = <<>>
    /\ UNCHANGED <<mapped, RW_LOADED, loadable_classes, running, called, missed, maps>>

(* The end of call_category_loads: every class is loadable, so nothing is  *)
(* left of the detached list, and the new entries are the list; once more  *)
(* round if there are any, or classes.                                     *)
AgainOrEnd_CategoriesOnce ==
    /\ phase = "categories" /\ detached = <<>>
    /\ phase' = IF loadable_classes # <<>> THEN "classes" ELSE "idle"
    /\ UNCHANGED <<mapped, RW_LOADED, loadable_classes, loadable_categories, detached, running,
                   called, missed, maps>>

AgainOrEnd ==
    /\ phase = "categories" /\ detached = <<>>
    /\ phase' = IF loadable_classes # <<>> \/ loadable_categories # <<>> THEN "classes" ELSE "idle"
    /\ UNCHANGED <<mapped, RW_LOADED, loadable_classes, loadable_categories, detached, running,
                   called, missed, maps>>

Next ==
    \/ \E i \in DOMAIN Images : load_images(i) \/ unmap_image(i)
    \/ DetachClasses \/ CallLoad \/ LoadReturns \/ DetachCategories \/ AgainOrEnd

Spec == Init /\ [][Next]_vars

----------------------------------------------------------------------------
Before(x, y) ==
    \A m \in DOMAIN called : called[m] = y => \E k \in 1 .. m - 1 : called[k] = x

(* Each +load method is called once, after that of the superclass, and a   *)
(* category's after its class's, however the images are nested ("This list *)
(* always has superclasses first", objc-loadmethod.mm:45).                 *)
LoadsInOrder ==
    /\ IsInjective(called)
    /\ \A c \in DOMAIN Superclass :
           Superclass[c] \in HasLoad => Before(Superclass[c], c)
    /\ \A k \in DOMAIN ClassOf : ClassOf[k] \in HasLoad => Before(ClassOf[k], k)

(* When the outermost call_load_methods returns, every +load method of     *)
(* every image that is mapped was called, those mapped by nested calls     *)
(* too; and a method that is called belongs to a mapped image, unless its  *)
(* image was unmapped by another +load method of the same detached list,   *)
(* which remove_class_from_loadable_list does not see.                     *)
ExactlyTheMappedAreLoaded ==
    /\ phase = "idle" =>
           \A i \in mapped : ItemsOf(i) \cap HasLoad \subseteq Range(called)
    /\ running # nil => running \in missed \cup UNION {ItemsOf(i) : i \in mapped}

=============================================================================
