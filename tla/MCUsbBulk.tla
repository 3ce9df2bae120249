----------------------------- MODULE MCUsbBulk -----------------------------
EXTENDS UsbBulk

MCXfers == {"x1", "x2"}

MCEndpoints == {"in", "out"}

MCEndpointOf == [x \in MCXfers |-> IF x = "x1" THEN "in" ELSE "out"]

MCOneXfer == {"x1"}

MCOneEndpoint == {"in"}

MCOneEndpointOf == [x \in MCXfers |-> "in"]

=============================================================================
