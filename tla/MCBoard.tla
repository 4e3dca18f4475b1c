------------------------------- MODULE MCBoard -------------------------------
\* The builds of main.c that differ in what they run.
EXTENDS Board

Build(platform, options) == [platform |-> platform, sfp |-> "sfp" \in options,
                             zcu102 |-> "zcu102" \in options, dhcp |-> "dhcp" \in options,
                             rxreset |-> "rxreset" \in options]

AllBuilds == { Build("zynq", {"sfp", "dhcp", "rxreset"}),
               Build("zynq", {}),
               Build("zynqmp", {"zcu102", "dhcp"}),
               Build("microblaze", {"dhcp"}) }
=============================================================================
