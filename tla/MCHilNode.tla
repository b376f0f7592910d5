------------------------------- MODULE MCHilNode -------------------------------
EXTENDS HilNode

\* A frame that is due soon, and one that is not.
MCTimestamps == {1, 3}

MCImuRegs == {1}
MCLidarRegs == {15}  \* LIDAR_REG_FULL_DELAY_HIGH
================================================================================
