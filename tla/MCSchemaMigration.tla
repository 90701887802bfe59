--------------------------- MODULE MCSchemaMigration ---------------------------
(* A small migration: a table is altered, one is rebuilt, one is new and one goes. *)
EXTENDS SchemaMigration

CONSTANTS altered, rebuilt, created, removed, kept, gained, lost, guarded

OldSchema ==
    [t \in {altered, rebuilt, removed} |->
        CASE t = altered -> {kept, lost, guarded} [] t = rebuilt -> {kept, lost} [] OTHER -> {kept}]

NewSchema ==
    [t \in {altered, rebuilt, created} |-> IF t = altered THEN {kept, gained} ELSE {kept}]

RefusedDrops == {<<rebuilt, lost>>}

GuardedColumns == {<<altered, guarded>>}

================================================================================
