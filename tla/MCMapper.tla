---- MODULE MCMapper ----
(***************************************************************************)
(* Instances of Mapper: words over letters of the mapper's dictionaries.   *)
(* One letter stands for those that differ only in what is abstracted.     *)
(***************************************************************************)
EXTENDS Mapper
DictionaryLetters ==
  AllLetters \ {"norClose", "includeTokenOld", "destInitial", "initHello-l",
                "initMalformed", "zeroMalformed", "zeroClose", "zeroFin", "onePing"}
====
