------------------------------ MODULE MCFileTab ------------------------------
(* A small instance of FileTab: a linked and a saved session, two          *)
(* directories, three names of which one is hidden, two modes.             *)
EXTENDS FileTab

MCServers == {"linked", "saved"}
MCSftp    == {"linked"}
MCLinked  == {"linked"}
MCDirs    == {"root", "sub"}
MCNames   == {"a", "b", "dot"}
MCHidden  == {"dot"}
MCTyped   == {"a", "dot"}
MCModes   == {"m1", "m2"}
MCWindows == {"w1"}
MCSlots   == {1, 2}
=============================================================================
