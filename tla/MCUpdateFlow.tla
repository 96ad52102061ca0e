---------------------------- MODULE MCUpdateFlow -----------------------------
(* Instance of UpdateFlow for TLC. *)
EXTENDS UpdateFlow

Num(n) == IF n < 10 THEN <<48 + n>> ELSE <<48 + (n \div 10), 48 + (n % 10)>>
V(major, minor, patch, pre) ==
  [major |-> Num(major), minor |-> Num(minor), patch |-> Num(patch), pre |-> pre]
Rc(n) == << <<114, 99>>, Num(n) >>

V9   == V(0, 9, 0, <<>>)                    \* 0.9.0
V10a == V(0, 10, 0, Rc(2))                  \* 0.10.0-rc.2
V10b == V(0, 10, 0, Rc(10))                 \* 0.10.0-rc.10
V10  == V(0, 10, 0, <<>>)                   \* 0.10.0
Bad  == [V10 EXCEPT !.patch = <<48, 49>>]   \* 0.10.01

MCDesktopVersion == V10a
MCInstalled == {V10a}
MCRegistry  == {V10b, Bad}

A(format, arch, kind) ==
  [format |-> format, arch |-> arch, kind |-> kind, site |-> "gitee",
   name |-> "plain"]
Elsewhere(asset) == [asset EXCEPT !.site = "elsewhere"]
Unsafe(asset) == [asset EXCEPT !.name = "unsafe"]

\* Every format: what must not be taken before and after what should be.
Full == <<A("appimage", "host", "odd"),
          A("appimage", "other", "package"),
          A("appimage", "none", "package"),
          Elsewhere(A("appimage", "host", "package")),
          A("other", "host", "auxiliary"),
          A("deb", "host", "package"),
          A("appimage", "host", "package"),
          A("rpm", "host", "package"),
          A("tar", "none", "odd"),
          A("zip", "host", "package")>>

\* A debug build (100 points) is taken before the packages (70, 60 and 30).
Debug == <<A("deb", "none", "package"), Unsafe(A("rpm", "none", "package")),
           A("appimage", "host", "odd"), A("rpm", "other", "package")>>

\* Checksums only.
Sums == <<A("other", "host", "auxiliary")>>

R(tag, assets) == [tag |-> tag, assets |-> assets]
Body(releases) == [http |-> 200, body |-> "releases", releases |-> releases]

\* The newest release is neither the first nor the last.
Newest(assets) ==
  Body(<<R(V9, Sums), R(V10, assets), R(V10b, Sums), R(Bad, Sums)>>)

\* One body must not be read.
MCResponses ==
  {Newest(Full), Newest(Debug), [Body(<<R(V10, Sums)>>) EXCEPT !.http = 500]}
=============================================================================
