----------------------------- MODULE MCDelivery -----------------------------
(***************************************************************************)
(* A package with a command and its hidden program, a library and a few    *)
(* links, beside one dependency.                                           *)
(***************************************************************************)
EXTENDS Delivery, TLC

MCNameOrder == <<"..x-wrapped-wrapped", ".binman-meta", ".l.a-wrapped", ".x-wrapped", "bin", "d", "dep", "doc", "e", "f", "g", "gone", "l.a",
                 "lib", "openssl", "out", "pkg", "share", "stage", "x", "y", "z">>
MCSource == <<"pkg">>
MCOutput == <<"out">>
MCWrapped == ".x-wrapped" :> "x" @@ "..x-wrapped-wrapped" :> ".x-wrapped"
    @@ ".l.a-wrapped" :> "l.a"
MCConfigs == [platform : {"linux", "darwin"}, allowDynamicELF : {FALSE}]

Text(id) == [kind |-> "text", id |-> id, refs |-> TRUE]
Elf(id, interpreter, rpaths) ==
    [kind |-> "elf", id |-> id, refs |-> TRUE, parses |-> TRUE, interpreter |-> interpreter,
     libraries |-> {}, rpaths |-> rpaths, type |-> "dyn", pie |-> TRUE]
MachO(id, rpaths) ==
    [kind |-> "macho", id |-> id, refs |-> TRUE, parses |-> TRUE, dependencies |-> {"system"},
     rpaths |-> rpaths, installName |-> "none"]

Binary(id) == [kind |-> "binary", id |-> id, refs |-> TRUE]
Damaged(data) == [data EXCEPT !.parses = FALSE]

Nothing == <<>>
To(to) == Link(FALSE, to)
AbsTo(to) == Link(TRUE, to)

Base ==
    <<>> :> Dir @@ <<"pkg">> :> Dir @@ <<"pkg", "bin">> :> Dir
    @@ <<"pkg", "lib">> :> Dir @@ <<"pkg", "lib", "f">> :> File(Text("f"), FALSE)
    @@ <<"dep">> :> Dir @@ <<"dep", "f">> :> File(Text("dep"), TRUE)
    @@ <<"dep", "e">> :> Dir @@ <<"dep", "e", "g">> :> To(<<"..", "f">>)

\* The command, and the program behind it.
Commands ==
    {Nothing} \cup {<<"pkg", "bin", "x">> :> n :
        n \in {File(Text("launcher"), TRUE), To(<<".x-wrapped">>),
               To(<<"..", "lib", "f">>), AbsTo(<<"dep", "f">>)}}
Programs ==
    {Nothing} \cup {<<"pkg", "bin", ".x-wrapped">> :> n :
        n \in {File(Text("program"), TRUE), File(Elf("program", "none", {}), TRUE),
               File(Elf("program", "none", {"nix"}), TRUE),
               File(Elf("program", "nix", {}), TRUE),
               File(MachO("program", {"nix"}), TRUE),
               File(MachO("program", {"other"}), TRUE), To(<<"..", "lib", "f">>),
               File(Damaged(Elf("program", "none", {})), TRUE),
               File(Damaged(MachO("program", {})), TRUE)}}

\* A program hidden twice, and one whose public name goes.
Deeper ==
    {<<"pkg", "bin", "..x-wrapped-wrapped">> :> n :
        n \in {File(Text("deeper"), TRUE), To(<<"..", "lib", "f">>)}}
    \cup {<<"pkg", "lib", ".l.a-wrapped">> :> File(Text("hidden"), TRUE)}

\* Another name of something.
Aliases ==
    {Nothing} \cup {<<"pkg", "bin", "y">> :> n :
        n \in {To(<<"x">>), To(<<".x-wrapped">>), To(<<"y">>), To(<<"gone">>),
               To(<<"..", "lib", "z">>), To(<<"..", "lib", "d", "g">>),
               To(<<"..", "..", "dep", "f">>), To(<<"..", "..", "pkg", "lib", "f">>),
               To(<<"..", "lib", "d", "..", "lib", "f">>),
               To(<<"..", "share", "doc", "f">>), AbsTo(<<"pkg", "bin", "x">>)}}
More ==
    {Nothing} \cup {<<"pkg", "lib", "z">> :> n :
        n \in {To(<<"..", "bin", "x">>), AbsTo(<<"dep", "f">>), To(<<"l.a">>),
               To(<<"d", "y">>), To(<<"d", "..", "lib", "f">>)}}
Library == <<"pkg", "lib", "l.a">> :> File(Text("archive"), FALSE)

\* A directory of another name.
Directories ==
    {Nothing} \cup {<<"pkg", "lib", "d">> :> n :
        n \in {To(<<>>), To(<<"..">>), To(<<"..", "bin">>), AbsTo(<<"dep", "e">>),
               AbsTo(<<"pkg", "bin">>), AbsTo(<<"pkg">>)}}

\* A link back, by itself or by the way of another, and a link in what a link
\* out of the package ends at.
Returns ==
    {Nothing, <<"pkg", "bin", "e">> :> To(<<"..", "lib">>),
     <<"pkg", "bin", "e">> :> To(<<"..", "lib", "d">>),
     <<"dep", "e", "x">> :> To(<<"..", "..", "pkg", "lib", "f">>)}

\* A directory that goes, by its own path and through a link, and a file that
\* is not validated.
Extras ==
    {Nothing,
     <<"pkg", "share">> :> Dir @@ <<"pkg", "share", "doc">> :> Dir
        @@ <<"pkg", "share", "doc", "f">> :> File(Text("doc"), FALSE),
     <<"pkg", "share">> :> To(<<"lib">>) @@ <<"pkg", "lib", "doc">> :> Dir
        @@ <<"pkg", "lib", "doc", "f">> :> File(Text("doc"), FALSE),
     <<"pkg", "share">> :> File(Binary("share"), FALSE),
     <<"pkg", "openssl">> :> Dir
        @@ <<"pkg", "openssl", "x">> :> File(Elf("engine", "system", {}), TRUE)
        @@ <<"pkg", "openssl", "f">> :> File(Binary("f"), FALSE),
     <<"pkg", ".binman-meta">> :> File(Text("meta"), FALSE),
     <<"pkg", ".binman-meta">> :> Dir}

\* A directory where the launcher is expected, and one that a link goes
\* through.
Obstacles ==
    {<<"pkg", "bin", "x">> :> Dir @@ f : f \in
        {<<"pkg", "bin", "x", "f">> :> File(Text("f"), FALSE),
         <<"pkg", "bin", "y">> :> To(<<"x", "..", "..", "lib", "f">>)}}

\* What may come together: each line is a product.
Launcher == <<"pkg", "bin", "x">> :> File(Text("launcher"), TRUE)
Program == <<"pkg", "bin", ".x-wrapped">> :> File(Text("program"), TRUE)
MCTrees ==
    {Base @@ c @@ p @@ a : c \in Commands, p \in Programs, a \in Aliases}
    \cup {Base @@ c @@ p @@ a @@ x :
              c \in Commands, p \in {Nothing, Program}, a \in Aliases, x \in Extras}
    \cup {Base @@ Launcher @@ a @@ m @@ d @@ r @@ Library :
              a \in Aliases, m \in More, d \in Directories, r \in Returns}
    \cup {Base @@ c @@ p @@ i @@ l :
              c \in Commands, p \in Programs, i \in Deeper, l \in {Nothing, Library}}
    \cup {Base @@ o @@ p : o \in Obstacles, p \in Programs}
=============================================================================
