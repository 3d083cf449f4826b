----------------------------- MODULE MCScanWorker ----------------------------
(* Constants for checking ScanWorker on requests of two files.             *)
EXTENDS ScanWorker

Plain(text, code, long, lines) ==
  [text |-> text, code |-> code, long |-> long, lines |-> lines,
   dir |-> 1, name |-> "other", body |-> "no_object"]

Source   == Plain(TRUE, TRUE, FALSE, 1)
Minified == Plain(TRUE, TRUE, TRUE, 1)
Settings == Plain(TRUE, FALSE, FALSE, 1)
Blob     == Plain(FALSE, FALSE, FALSE, 1)

Manifest(lines, body) ==
  [Plain(TRUE, FALSE, FALSE, lines) EXCEPT !.name = "package.json", !.body = body]

Lockfile(long, dir) == [Plain(TRUE, FALSE, long, 1) EXCEPT !.name = "lockfile", !.dir = dir]

Dockerfile == [Plain(FALSE, FALSE, FALSE, 1) EXCEPT !.name = "dockerfile"]

Requirements == [Settings EXCEPT !.name = "manifest"]

(* A request whose checks all return.                                      *)
Returning == {Source, Minified, Settings, Blob, Requirements, Dockerfile,
              Manifest(1, "dependencies"), Manifest(1, "no_dependencies"), Manifest(1, "refused"),
              Lockfile(TRUE, 1), Lockfile(FALSE, 1), Lockfile(FALSE, 2)}

(* And one of every kind.                                                  *)
AnyKind == Returning \cup {Manifest(0, "refused"), Manifest(1, "no_object")}

EmptyManifest == {Source, Manifest(0, "refused")}

Rule(category, severity, mapped) == [check |-> category, severity |-> severity, mapped |-> mapped]

(* One rule of each check, and the one on lockfiles, in the order of the   *)
(* ids; the standard does not map the configuration rule.                  *)
SomeMapped == <<Rule("code", 1, TRUE), Rule("configuration", 0, FALSE),
                Rule("dependencies", 1, TRUE), Rule("dependencies", 1, TRUE), Rule("secrets", 2, TRUE)>>

AllMapped == [r \in 1..Len(SomeMapped) |-> [SomeMapped[r] EXCEPT !.mapped = TRUE]]
=============================================================================
